---- MODULE Spec2Model ----
(***************************************************************************)
(* Voyager relayer: the work queue (voyager/src/queue.rs), the message     *)
(* reducer handle_msg with its sub-dispatchers, and the aggregation table. *)
(*                                                                         *)
(* Specifications:                                                         *)
(*   SpecQueue  - InMemoryQueue shared by several callers, any handler     *)
(*   SpecPg     - the durable queue with a crash between handler and commit*)
(*   Spec       - Voyager::run: ingress, InMemoryQueue, handle_msg         *)
(*   SpecPure   - the pure functions applied to enumerated inputs          *)
(***************************************************************************)
EXTENDS Integers, Sequences, FiniteSets, TLC

VARIABLES
    queue,        \* InMemoryQueue: the VecDeque<RelayerMsg> behind the mutex
    lock,         \* holder of the queue mutex, or NoWorker
    poisoned,     \* the mutex was held by a caller that panicked
    handling,     \* per caller: the message popped by process, f still running
    halted,       \* per caller: it panicked
    appended,     \* history: every message appended to the queue, in order
    delivered,    \* history: every message handed to a handler, in order
    queueBefore,  \* history: the queue contents when process took the lock
    lastFlow,     \* history: outcome of the last completed queue operation
    lastCaller,   \* history: the caller of the last queue operation
    requeuedHead, \* history: the head is a message put back by Requeue
    now,              \* SystemTime::now() in unix seconds
    latest_height,    \* per chain: revision_height of the latest block
    latest_timestamp, \* per chain: timestamp of the latest block
    client_height,    \* per chain: trusted revision_height of its client of the counterparty
    pc,               \* Voyager::run: "select" or "process"
    ingress,          \* number of messages the event streams have yielded
    panicked,         \* Voyager::run panicked
    lastMsg,          \* history: the message the last process call handed to handle_msg
    lastResult,       \* history: what handle_msg returned for it
    lastNow,          \* history: the clock when it was handled
    submitted,        \* history: the Msgs passed to an adapter's msg(), in order
    CHANNEL_INFO,     \* ucs01-relay storage: per channel id, the ChannelInfo saved for it
    CONFIG,           \* ucs01-relay storage: the Config saved by instantiate
    ADMIN,            \* ucs01-relay storage: the admin set by instantiate
    lastExecute,      \* history: the env, info and msg of the last call of execute
    lastResponse      \* history: what execute returned for it

queueVars == <<queue, lock, poisoned, handling, halted, appended, delivered,
               queueBefore, lastFlow, lastCaller, requeuedHead>>

engineVars == <<now, latest_height, latest_timestamp, client_height, pc,
                ingress, panicked, lastMsg, lastResult, lastNow, submitted>>

envVars == <<now, latest_height, latest_timestamp, client_height>>

contractVars == <<CHANNEL_INFO, CONFIG, ADMIN, lastExecute, lastResponse>>

vars == <<queueVars, engineVars, contractVars>>

(***************************************************************************)
(* Bounds                                                                  *)
(***************************************************************************)
NumWorkers == 2
MaxAppended == 4
MaxTimestamp == 3

MaxHeight == 2

MaxIngress == 1

Workers == 1..NumWorkers
NoWorker == 0

(***************************************************************************)
(* RelayerMsg: the queue element                                           *)
(***************************************************************************)
NoMsg == [tag |-> "None"]

DeferUntil(timestamp) == [tag |-> "DeferUntil", timestamp |-> timestamp]

Timeout(timeout_timestamp, msg) ==
    [tag |-> "Timeout", timeout_timestamp |-> timeout_timestamp, msg |-> msg]

Sequence(seq) == [tag |-> "Sequence", seq |-> seq]

Retry(attempts, msg) == [tag |-> "Retry", attempts |-> attempts, msg |-> msg]

Aggregate(q, data, receiver) ==
    [tag |-> "Aggregate", queue |-> q, data |-> data, receiver |-> receiver]

(***************************************************************************)
(* flatten_seq                                                             *)
(***************************************************************************)
RECURSIVE flatten(_)
RECURSIVE flat_map_flatten(_)

flat_map_flatten(msgs) ==
    IF msgs = <<>> THEN <<>>
    ELSE flatten(Head(msgs)) \o flat_map_flatten(Tail(msgs))

\* mutant of flatten: the Sequences among the elements are kept
flatten_Shallow(msg) == IF msg.tag = "Sequence" THEN msg.seq ELSE <<msg>>

flatten(msg) ==
    IF msg.tag = "Sequence" THEN flat_map_flatten(msg.seq) ELSE <<msg>>

\* mutant of flatten_seq: a single message stays in its Sequence
flatten_seq_Wrapped(msg) == Sequence(flatten(msg))

\* mutant of flatten_seq: nothing is flattened
flatten_seq_Identity(msg) == msg

flatten_seq(msg) ==
    LET msgs == flatten(msg)
    IN  IF Len(msgs) = 1 THEN Head(msgs) ELSE Sequence(msgs)

(***************************************************************************)
(* Chains, light clients, heights                                          *)
(***************************************************************************)
LightClients ==
    {"EthereumMainnet", "EthereumMinimal", "CometblsMainnet", "CometblsMinimal"}

\* Voyager.union, Voyager.evm_minimal, Voyager.evm_mainnet: registered chains
union == {"union"}

evm_minimal == {"evm"}

evm_mainnet == {}

Chains == union \cup evm_minimal \cup evm_mainnet

\* a chain id no map of the Voyager holds
UnknownChain == "other"

\* mutant of Counterparty: a light client is its own counterparty
Counterparty_Self(lc) == lc

Counterparty(lc) ==
    CASE lc = "EthereumMainnet" -> "CometblsMainnet"
      [] lc = "EthereumMinimal" -> "CometblsMinimal"
      [] lc = "CometblsMainnet" -> "EthereumMainnet"
      [] lc = "CometblsMinimal" -> "EthereumMinimal"

\* GetLc::get_lc looks the chain id up in the map of the light client's host
HostChains(lc) ==
    CASE lc = "EthereumMainnet" -> union
      [] lc = "EthereumMinimal" -> union
      [] lc = "CometblsMainnet" -> evm_mainnet
      [] lc = "CometblsMinimal" -> evm_minimal

get_lc_ok(lc, chain_id) == chain_id \in HostChains(lc)

\* the light client variant that runs on a registered chain
LcOf(chain_id) == IF chain_id \in union THEN "EthereumMinimal" ELSE "CometblsMinimal"

\* the chain that the client on chain_id tracks
CounterpartyChain(chain_id) == IF chain_id \in union THEN "evm" ELSE "union"

EVM_REVISION_NUMBER == 0

UNION_REVISION_NUMBER == 1

RevisionOf(chain_id) ==
    IF chain_id \in union THEN UNION_REVISION_NUMBER ELSE EVM_REVISION_NUMBER

Height(revision_number, revision_height) ==
    [revision_number |-> revision_number, revision_height |-> revision_height]

increment(height) == [height EXCEPT !.revision_height = @ + 1]

Latest == [at |-> "Latest"]

Specific(height) == [at |-> "Specific", height |-> height]

\* the identifiers of the one client, connection and channel each chain has
ClientIdOn(chain_id) == IF chain_id \in union THEN "08-wasm-0" ELSE "cometbls-0"

ConnectionIdOn(chain_id) ==
    IF chain_id \in union THEN "connection-1" ELSE "connection-2"

ChannelIdOn(chain_id) == IF chain_id \in union THEN "channel-1" ELSE "channel-2"

PortIdOn(chain_id) == IF chain_id \in union THEN "wasm.transfer" ELSE "transfer"

(***************************************************************************)
(* Chain adapter: the queries the reducer makes of a chain                 *)
(***************************************************************************)
query_latest_height(chain_id) ==
    Height(RevisionOf(chain_id), latest_height[chain_id])

query_latest_timestamp(chain_id) == latest_timestamp[chain_id]

\* the client that chain_id keeps of its counterparty
query_client_state(chain_id, client_id, height) ==
    [chain_id |-> CounterpartyChain(chain_id),
     height |-> Height(RevisionOf(CounterpartyChain(chain_id)),
                       client_height[chain_id])]

ConnectionEndOn(chain_id) ==
    [client_id |-> ClientIdOn(chain_id),
     versions |-> <<"1">>,
     counterparty |->
        [client_id |-> ClientIdOn(CounterpartyChain(chain_id)),
         connection_id |-> ConnectionIdOn(CounterpartyChain(chain_id)),
         prefix |-> "ibc"]]

ChannelEndOn(chain_id) ==
    [ordering |-> "Unordered",
     counterparty |->
        [port_id |-> PortIdOn(CounterpartyChain(chain_id)),
         channel_id |-> ChannelIdOn(CounterpartyChain(chain_id))],
     connection_hops |-> <<ConnectionIdOn(chain_id)>>]

StateAt(chain_id, path) ==
    CASE path.path = "ConnectionPath" -> ConnectionEndOn(chain_id)
      [] path.path = "ChannelEndPath" -> ChannelEndOn(chain_id)
      [] path.path = "ClientStatePath" ->
            query_client_state(chain_id, path.client_id, Latest)
      [] OTHER -> [stored |-> path]

state_proof(chain_id, path, at) ==
    [state |-> StateAt(chain_id, path),
     proof |-> [chain_id |-> chain_id, path |-> path, at |-> at],
     proof_height |-> at]

(***************************************************************************)
(* LcMsg and its payloads                                                  *)
(***************************************************************************)
LcMsg(lc, kind, chain_id, data) ==
    [tag |-> "Lc", lc |-> lc, kind |-> kind, chain_id |-> chain_id,
     data |-> data]

AggregateReceiver(lc, chain_id, data) ==
    [lc |-> lc, chain_id |-> chain_id, data |-> data]

WaitForBlock(height) == [wait |-> "Block", height |-> height]

WaitForTimestamp(timestamp) == [wait |-> "Timestamp", timestamp |-> timestamp]

WaitForTrustedHeight(client_id, height, counterparty_client_id, counterparty_chain_id) ==
    [wait |-> "TrustedHeight", client_id |-> client_id, height |-> height,
     counterparty_client_id |-> counterparty_client_id,
     counterparty_chain_id |-> counterparty_chain_id]

FetchTrustedClientState(at, client_id) ==
    [fetch |-> "TrustedClientState", at |-> at, client_id |-> client_id]

FetchStateProof(at, path) == [fetch |-> "StateProof", at |-> at, path |-> path]

FetchChannelEnd(at, port_id, channel_id) ==
    [fetch |-> "ChannelEnd", at |-> at, port_id |-> port_id,
     channel_id |-> channel_id]

FetchConnectionEnd(at, connection_id) ==
    [fetch |-> "ConnectionEnd", at |-> at, connection_id |-> connection_id]

(***************************************************************************)
(* The result of handling one message                                      *)
(***************************************************************************)
\* the successors, the seconds slept, the Msgs given to an adapter
Ok(msgs) == [panic |-> FALSE, msgs |-> msgs, slept |-> 0, sent |-> <<>>]

\* todo!(), a failed assert or unwrap: the handler does not return
Panic == [panic |-> TRUE, msgs |-> <<>>, slept |-> 0, sent |-> <<>>]

(***************************************************************************)
(* handle_event                                                            *)
(***************************************************************************)
\* mutant of mk_aggregate_update: the update targets the height of the event
mk_aggregate_update_AtEvent(lc, chain_id, client_id, counterparty_client_id, event_height) ==
    Aggregate(
        <<LcMsg(lc, "Fetch", chain_id,
                FetchTrustedClientState(Latest, client_id))>>,
        <<>>,
        AggregateReceiver(lc, chain_id,
            [aggregate |-> "UpdateClient",
             update_to |-> event_height,
             client_id |-> client_id,
             counterparty_client_id |-> counterparty_client_id]))

mk_aggregate_update(lc, chain_id, client_id, counterparty_client_id, event_height) ==
    Aggregate(
        <<LcMsg(lc, "Fetch", chain_id,
                FetchTrustedClientState(Latest, client_id))>>,
        <<>>,
        AggregateReceiver(lc, chain_id,
            [aggregate |-> "UpdateClient",
             update_to |-> increment(event_height),
             client_id |-> client_id,
             counterparty_client_id |-> counterparty_client_id]))

\* ConnectionOpenInit, ConnectionOpenTry, ConnectionOpenAck
connection_handshake_event(lc, chain_id, ibc_event, next) ==
    <<Sequence(<<
        LcMsg(lc, "Wait", chain_id, WaitForBlock(increment(ibc_event.height))),
        Aggregate(
            <<mk_aggregate_update(lc, chain_id, ibc_event.event.client_id,
                                  ibc_event.event.counterparty_client_id,
                                  ibc_event.height)>>,
            <<>>,
            AggregateReceiver(lc, chain_id,
                [aggregate |-> "AggregateMsgAfterUpdate",
                 msg |-> next,
                 event_height |-> ibc_event.height,
                 event |-> ibc_event.event]))
    >>)>>

\* ChannelOpenInit, ChannelOpenTry, ChannelOpenAck
channel_handshake_event(lc, chain_id, ibc_event, handshake) ==
    <<Sequence(<<
        LcMsg(lc, "Wait", chain_id, WaitForBlock(increment(ibc_event.height))),
        Aggregate(
            <<Aggregate(
                <<LcMsg(lc, "Fetch", chain_id,
                        FetchChannelEnd(increment(ibc_event.height),
                                        ibc_event.event.port_id,
                                        ibc_event.event.channel_id))>>,
                <<>>,
                AggregateReceiver(lc, chain_id,
                    [aggregate |-> "ConnectionFetchFromChannelEnd",
                     at |-> increment(ibc_event.height)]))>>,
            <<>>,
            AggregateReceiver(lc, chain_id,
                [aggregate |-> "ChannelHandshakeUpdateClient",
                 update_to |-> increment(ibc_event.height),
                 event_height |-> ibc_event.height,
                 channel_handshake_event |-> handshake,
                 event |-> ibc_event.event]))
    >>)>>

\* mutant of send_packet_event: the update targets the event's own height
send_packet_event_NoIncrement(lc, chain_id, ibc_event) ==
    <<Sequence(<<
        LcMsg(lc, "Wait", chain_id, WaitForBlock(increment(ibc_event.height))),
        Aggregate(
            <<LcMsg(lc, "Fetch", chain_id,
                    FetchConnectionEnd(ibc_event.height,
                                       ibc_event.event.connection_id))>>,
            <<>>,
            AggregateReceiver(lc, chain_id,
                [aggregate |-> "PacketUpdateClient",
                 update_to |-> ibc_event.height,
                 event_height |-> ibc_event.height,
                 block_hash |-> ibc_event.block_hash,
                 packet_event |-> "Send",
                 event |-> ibc_event.event]))
    >>)>>

send_packet_event(lc, chain_id, ibc_event) ==
    <<Sequence(<<
        LcMsg(lc, "Wait", chain_id, WaitForBlock(increment(ibc_event.height))),
        Aggregate(
            <<LcMsg(lc, "Fetch", chain_id,
                    FetchConnectionEnd(ibc_event.height,
                                       ibc_event.event.connection_id))>>,
            <<>>,
            AggregateReceiver(lc, chain_id,
                [aggregate |-> "PacketUpdateClient",
                 update_to |-> increment(ibc_event.height),
                 event_height |-> ibc_event.height,
                 block_hash |-> ibc_event.block_hash,
                 packet_event |-> "Send",
                 event |-> ibc_event.event]))
    >>)>>

command_update_client(lc, chain_id, command) ==
    <<Aggregate(
        <<LcMsg(lc, "Fetch", chain_id,
                FetchTrustedClientState(Latest, command.client_id))>>,
        <<>>,
        AggregateReceiver(lc, chain_id,
            [aggregate |-> "UpdateClientFromClientId",
             client_id |-> command.client_id,
             counterparty_client_id |-> command.counterparty_client_id]))>>

LogOnlyEvents ==
    {"CreateClient", "UpdateClient", "ConnectionOpenConfirm",
     "ChannelOpenConfirm", "RecvPacket", "AcknowledgePacket", "TimeoutPacket",
     "WriteAcknowledgement"}

handle_event(lc, chain_id, event) ==
    IF event.type = "Command"
    THEN Ok(command_update_client(lc, chain_id, event))
    ELSE LET name == event.event.name IN
         CASE name \in LogOnlyEvents -> Ok(<<>>)
           [] name \in {"ClientMisbehaviour", "SubmitEvidence"} -> Panic
           [] name = "ConnectionOpenInit" ->
                Ok(connection_handshake_event(lc, chain_id, event,
                                              "ConnectionOpenTry"))
           [] name = "ConnectionOpenTry" ->
                Ok(connection_handshake_event(lc, chain_id, event,
                                              "ConnectionOpenAck"))
           [] name = "ConnectionOpenAck" ->
                Ok(connection_handshake_event(lc, chain_id, event,
                                              "ConnectionOpenConfirm"))
           [] name = "ChannelOpenInit" ->
                Ok(channel_handshake_event(lc, chain_id, event, "Init"))
           [] name = "ChannelOpenTry" ->
                Ok(channel_handshake_event(lc, chain_id, event, "Try"))
           [] name = "ChannelOpenAck" ->
                Ok(channel_handshake_event(lc, chain_id, event, "Ack"))
           [] name = "SendPacket" -> Ok(send_packet_event(lc, chain_id, event))

(***************************************************************************)
(* handle_wait                                                             *)
(***************************************************************************)
\* mutant of wait_again: the wait is deferred and then forgotten
wait_again_Forgotten(lc, chain_id, wait) == <<DeferUntil(now + 1)>>

\* the wait is not over: defer one second, then wait again
wait_again(lc, chain_id, wait) ==
    <<Sequence(<<DeferUntil(now + 1), LcMsg(lc, "Wait", chain_id, wait)>>)>>

\* mutant of height_reached: the chain must be past the height
height_reached_Past(chain_height, height) ==
    chain_height.revision_height > height.revision_height

\* Wait::Block: the chain is at the height waited for, or past it
height_reached(chain_height, height) ==
    chain_height.revision_height >= height.revision_height

handle_wait(lc, chain_id, wait) ==
    CASE wait.wait = "Block" ->
            LET chain_height == query_latest_height(chain_id) IN
            IF chain_height.revision_number # wait.height.revision_number
            THEN Panic
            ELSE IF height_reached(chain_height, wait.height)
            THEN Ok(<<>>)
            ELSE Ok(wait_again(lc, chain_id, wait))
      [] wait.wait = "Timestamp" ->
            IF query_latest_timestamp(chain_id) >= wait.timestamp
            THEN Ok(<<>>)
            ELSE Ok(wait_again(lc, chain_id, wait))
      [] wait.wait = "TrustedHeight" ->
            LET trusted_client_state ==
                    query_client_state(chain_id, wait.client_id,
                                       query_latest_height(chain_id))
            IN  IF trusted_client_state.height.revision_height
                       >= wait.height.revision_height
                THEN Ok(<<LcMsg(Counterparty(lc), "Fetch",
                                wait.counterparty_chain_id,
                                FetchTrustedClientState(
                                    Specific(trusted_client_state.height),
                                    wait.counterparty_client_id))>>)
                ELSE Ok(wait_again(lc, chain_id, wait))

(***************************************************************************)
(* handle_fetch                                                            *)
(***************************************************************************)
TrustedClientState(fetched_at, client_id, trusted_client_state) ==
    [data |-> "TrustedClientState", fetched_at |-> fetched_at,
     client_id |-> client_id, trusted_client_state |-> trusted_client_state]

\* Data::ClientStateProof .. Data::AcknowledgementProof, by the path proved
ProofData(path) ==
    CASE path.path = "ClientStatePath" -> "ClientStateProof"
      [] path.path = "ClientConsensusStatePath" -> "ClientConsensusStateProof"
      [] path.path = "ConnectionPath" -> "ConnectionProof"
      [] path.path = "ChannelEndPath" -> "ChannelEndProof"
      [] path.path = "CommitmentPath" -> "CommitmentProof"
      [] path.path = "AcknowledgementPath" -> "AcknowledgementProof"

QueryHeight(chain_id, at) ==
    IF at.at = "Latest" THEN query_latest_height(chain_id) ELSE at.height

(***************************************************************************)
(* The EVM adapter: the beacon chain and the header builder                *)
(***************************************************************************)
\* C::PERIOD, scaled down: the slots of one sync committee period
PERIOD == 2

\* C::SECONDS_PER_SLOT, scaled down
SECONDS_PER_SLOT == 1

\* the beacon chain's genesis_time
GENESIS_TIME == 0

\* mutant of sync_committee_period: the slot is taken for its period
sync_committee_period_Slot(height) == height

sync_committee_period(height) == height \div PERIOD

\* beacon_api_client.finality_update(): the beacon slot is the chain's height
finality_update(chain_id) ==
    [attested_slot |-> latest_height[chain_id],
     signature_slot |-> latest_height[chain_id] + 1]

\* beacon_api_client.light_client_updates(start_period, count)
light_client_updates(start_period, count) ==
    [i \in 1..count |->
        [attested_slot |-> (start_period + i - 1) * PERIOD,
         signature_slot |-> (start_period + i - 1) * PERIOD + 1,
         next_sync_committee |-> start_period + i]]

EvmFetch(lc, chain_id, fetch) ==
    LcMsg(lc, "Fetch", chain_id, [fetch |-> "LightClientSpecific", msg |-> fetch])

fetch_update_headers(lc, chain_id, update_info) ==
    Aggregate(
        <<Sequence(<<EvmFetch(lc, chain_id, [evm |-> "FetchFinalityUpdate"])>>)>>,
        <<>>,
        AggregateReceiver(lc, chain_id,
            [aggregate |-> "LightClientSpecific",
             evm |-> "MakeCreateUpdates", req |-> update_info]))

EvmData(lc, chain_id, kind, payload) ==
    LcMsg(lc, "Data", chain_id, [data |-> kind, payload |-> payload])

do_fetch(lc, chain_id, msg) ==
    CASE msg.evm = "FetchFinalityUpdate" ->
            Ok(<<EvmData(lc, chain_id, "FinalityUpdate",
                         finality_update(chain_id))>>)
      [] msg.evm = "FetchLightClientUpdates" ->
            Ok(<<EvmData(lc, chain_id, "LightClientUpdates",
                    light_client_updates(msg.trusted_period + 1,
                        msg.target_period - msg.trusted_period))>>)
      [] msg.evm = "FetchLightClientUpdate" ->
            Ok(<<EvmData(lc, chain_id, "LightClientUpdate",
                         light_client_updates(msg.period, 1)[1])>>)
      [] msg.evm = "FetchAccountUpdate" ->
            Ok(<<EvmData(lc, chain_id, "AccountUpdate",
                         [slot |-> msg.slot, ibc_handler_address |-> "ibc"])>>)
      [] msg.evm = "FetchBeaconGenesis" ->
            Ok(<<EvmData(lc, chain_id, "BeaconGenesis",
                         [genesis_time |-> GENESIS_TIME])>>)

Max(a, b) == IF a >= b THEN a ELSE b

\* mutant of make_create_update: every update starts from the slot of the request
make_create_update_FromRequest(lc, req, chain_id, currently_trusted_slot, light_client_update, is_next) ==
    LET previous_period ==
            Max(1, light_client_update.attested_slot \div PERIOD) - 1
    IN  Aggregate(
            <<EvmFetch(lc, chain_id,
                  [evm |-> "FetchLightClientUpdate", period |-> previous_period]),
              EvmFetch(lc, chain_id,
                  [evm |-> "FetchAccountUpdate",
                   slot |-> light_client_update.attested_slot]),
              EvmFetch(lc, chain_id, [evm |-> "FetchBeaconGenesis"])>>,
            <<>>,
            AggregateReceiver(lc, chain_id,
                [aggregate |-> "LightClientSpecific",
                 evm |-> "CreateUpdate", req |-> req,
                 currently_trusted_slot |-> req.update_from.revision_height,
                 light_client_update |-> light_client_update,
                 is_next |-> is_next]))

make_create_update(lc, req, chain_id, currently_trusted_slot, light_client_update, is_next) ==
    LET previous_period ==
            Max(1, light_client_update.attested_slot \div PERIOD) - 1
    IN  Aggregate(
            <<EvmFetch(lc, chain_id,
                  [evm |-> "FetchLightClientUpdate", period |-> previous_period]),
              EvmFetch(lc, chain_id,
                  [evm |-> "FetchAccountUpdate",
                   slot |-> light_client_update.attested_slot]),
              EvmFetch(lc, chain_id, [evm |-> "FetchBeaconGenesis"])>>,
            <<>>,
            AggregateReceiver(lc, chain_id,
                [aggregate |-> "LightClientSpecific",
                 evm |-> "CreateUpdate", req |-> req,
                 currently_trusted_slot |-> currently_trusted_slot,
                 light_client_update |-> light_client_update,
                 is_next |-> is_next]))

\* the union adapter's generate_counterparty_updates: a fetch chain that
\* culminates in the submission of an UpdateClient to the counterparty
union_generate_counterparty_updates(lc, chain_id, update_info) ==
    <<LcMsg(Counterparty(lc), "Msg", update_info.counterparty_chain_id,
            [msg |-> "UpdateClient",
             client_id |-> update_info.counterparty_client_id,
             update_from |-> update_info.update_from,
             update_to |-> update_info.update_to])>>

generate_counterparty_updates(lc, chain_id, update_info) ==
    IF chain_id \in union
    THEN union_generate_counterparty_updates(lc, chain_id, update_info)
    ELSE <<fetch_update_headers(lc, chain_id, update_info)>>

handle_fetch(lc, chain_id, fetch) ==
    CASE fetch.fetch = "TrustedClientState" ->
            LET height == QueryHeight(chain_id, fetch.at) IN
            Ok(<<LcMsg(lc, "Data", chain_id,
                    TrustedClientState(height, fetch.client_id,
                        query_client_state(chain_id, fetch.client_id, height)))>>)
      [] fetch.fetch = "StateProof" ->
            Ok(<<LcMsg(lc, "Data", chain_id,
                    [data |-> ProofData(fetch.path),
                     proof |-> state_proof(chain_id, fetch.path, fetch.at)])>>)
      [] fetch.fetch \in {"SelfClientState", "SelfConsensusState"} ->
            Ok(<<LcMsg(lc, "Data", chain_id,
                    [data |-> fetch.fetch,
                     state |-> [chain_id |-> chain_id,
                                height |-> QueryHeight(chain_id, fetch.at)]])>>)
      [] fetch.fetch = "PacketAcknowledgement" ->
            Ok(<<LcMsg(lc, "Data", chain_id,
                    [data |-> "PacketAcknowledgement", fetched_by |-> fetch,
                     ack |-> [acked |-> fetch.sequence]])>>)
      [] fetch.fetch = "UpdateHeaders" ->
            Ok(generate_counterparty_updates(lc, chain_id, fetch))
      [] fetch.fetch = "LightClientSpecific" ->
            IF chain_id \in union THEN Ok(<<>>)
            ELSE do_fetch(lc, chain_id, fetch.msg)
      [] fetch.fetch = "ChannelEnd" ->
            Ok(<<LcMsg(lc, "Data", chain_id,
                    [data |-> "ChannelEnd",
                     channel |->
                        state_proof(chain_id,
                            [path |-> "ChannelEndPath",
                             port_id |-> fetch.port_id,
                             channel_id |-> fetch.channel_id],
                            fetch.at).state])>>)
      [] fetch.fetch = "ConnectionEnd" ->
            Ok(<<LcMsg(lc, "Data", chain_id,
                    [data |-> "ConnectionEnd",
                     connection |->
                        state_proof(chain_id,
                            [path |-> "ConnectionPath",
                             connection_id |-> fetch.connection_id],
                            fetch.at).state])>>)

(***************************************************************************)
(* Aggregation: do_create and the UseAggregate implementations             *)
(***************************************************************************)
\* TryFrom<RelayerMsg> for AggregateData: only Lc Data converts
is_data(m) == m.tag = "Lc" /\ m.kind = "Data"

IsA(d, lc, kind) == d.lc = lc /\ d.data.data = kind

\* aggregate_data::do_aggregate plucks each required item by its type
HasData(data, lc, kind) == \E i \in 1..Len(data) : IsA(data[i], lc, kind)

Pluck(data, lc, kind) ==
    data[CHOOSE i \in 1..Len(data) :
            /\ IsA(data[i], lc, kind)
            /\ \A j \in 1..(i - 1) : ~IsA(data[j], lc, kind)]

HasAll(data, lc, kinds) == \A k \in kinds : HasData(data, lc, k)

MsgAfterUpdate(lc, chain_id, msg, event_height, event) ==
    AggregateReceiver(lc, chain_id,
        [aggregate |-> "AggregateMsgAfterUpdate", msg |-> msg,
         event_height |-> event_height, event |-> event])

AggregateChannelHandshakeUpdateClient(lc, this_chain_id, agg, data) ==
    IF ~HasData(data, lc, "ConnectionEnd") THEN Panic ELSE
    LET d == Pluck(data, lc, "ConnectionEnd")
        connection == d.data.connection
        next == CASE agg.channel_handshake_event = "Init" -> "ChannelOpenTry"
                  [] agg.channel_handshake_event = "Try" -> "ChannelOpenAck"
                  [] agg.channel_handshake_event = "Ack" -> "ChannelOpenConfirm"
    IN  IF this_chain_id # d.chain_id THEN Panic ELSE
        Ok(<<Aggregate(
                <<mk_aggregate_update(lc, this_chain_id, connection.client_id,
                                      connection.counterparty.client_id,
                                      agg.update_to)>>,
                <<>>,
                MsgAfterUpdate(lc, this_chain_id, next, agg.event_height,
                               agg.event))>>)

AggregatePacketUpdateClient(lc, this_chain_id, agg, data) ==
    IF ~HasData(data, lc, "ConnectionEnd") THEN Panic ELSE
    LET d == Pluck(data, lc, "ConnectionEnd")
        connection == d.data.connection
        event ==
            IF agg.packet_event = "Send"
            THEN AggregateReceiver(lc, this_chain_id,
                    [aggregate |-> "AggregateMsgAfterUpdate",
                     msg |-> "RecvPacket",
                     event_height |-> agg.event_height, event |-> agg.event])
            ELSE AggregateReceiver(lc, this_chain_id,
                    [aggregate |-> "AggregateMsgAfterUpdate",
                     msg |-> "AckPacket",
                     event_height |-> agg.event_height, event |-> agg.event,
                     block_hash |-> agg.block_hash,
                     counterparty_client_id |->
                        connection.counterparty.client_id])
    IN  IF this_chain_id # d.chain_id THEN Panic ELSE
        Ok(<<Aggregate(
                <<Aggregate(
                    <<LcMsg(lc, "Fetch", this_chain_id,
                        FetchTrustedClientState(Latest, connection.client_id))>>,
                    <<>>,
                    AggregateReceiver(lc, this_chain_id,
                        [aggregate |-> "WaitForTrustedHeight",
                         wait_for |-> agg.update_to,
                         client_id |-> connection.client_id,
                         counterparty_client_id |->
                            connection.counterparty.client_id]))>>,
                <<>>,
                event)>>)

AggregateConnectionFetchFromChannelEnd(lc, this_chain_id, agg, data) ==
    IF ~HasData(data, lc, "ChannelEnd") THEN Panic ELSE
    LET d == Pluck(data, lc, "ChannelEnd") IN
    IF this_chain_id # d.chain_id THEN Panic ELSE
    Ok(<<LcMsg(lc, "Fetch", this_chain_id,
            FetchConnectionEnd(agg.at, d.data.channel.connection_hops[1]))>>)

UpdateClientWithCounterpartyChainId(lc, chain_id, update_to, client_id, counterparty_client_id, counterparty_chain_id) ==
    AggregateReceiver(lc, chain_id,
        [aggregate |-> "UpdateClientWithCounterpartyChainIdData",
         update_to |-> update_to, client_id |-> client_id,
         counterparty_client_id |-> counterparty_client_id,
         counterparty_chain_id |-> counterparty_chain_id])

AggregateUpdateClientFromClientId(lc, this_chain_id, agg, data) ==
    IF ~HasData(data, lc, "TrustedClientState") THEN Panic ELSE
    LET d == Pluck(data, lc, "TrustedClientState")
        trusted_client_state == d.data.trusted_client_state
        counterparty_chain_id == trusted_client_state.chain_id
    IN  IF this_chain_id # d.chain_id THEN Panic ELSE
        Ok(<<Aggregate(
                <<LcMsg(Counterparty(lc), "Fetch", counterparty_chain_id,
                    FetchTrustedClientState(
                        Specific(trusted_client_state.height),
                        agg.counterparty_client_id))>>,
                <<>>,
                UpdateClientWithCounterpartyChainId(lc, this_chain_id,
                    d.data.fetched_at, agg.client_id,
                    agg.counterparty_client_id, counterparty_chain_id))>>)

AggregateUpdateClient(lc, this_chain_id, agg, data) ==
    IF ~HasData(data, lc, "TrustedClientState") THEN Panic ELSE
    LET d == Pluck(data, lc, "TrustedClientState")
        counterparty_chain_id == d.data.trusted_client_state.chain_id
    IN  IF this_chain_id # d.chain_id \/ agg.client_id # d.data.client_id
        THEN Panic ELSE
        Ok(<<Aggregate(
                <<LcMsg(Counterparty(lc), "Fetch", counterparty_chain_id,
                    FetchTrustedClientState(Latest,
                                            agg.counterparty_client_id))>>,
                <<>>,
                UpdateClientWithCounterpartyChainId(lc, this_chain_id,
                    agg.update_to, agg.client_id,
                    agg.counterparty_client_id, counterparty_chain_id))>>)

AggregateUpdateClientWithCounterpartyChainId(lc, this_chain_id, agg, data) ==
    IF ~HasData(data, Counterparty(lc), "TrustedClientState") THEN Panic ELSE
    LET d == Pluck(data, Counterparty(lc), "TrustedClientState")
        trusted_client_state == d.data.trusted_client_state
        self_chain_id == trusted_client_state.chain_id
    IN  IF \/ this_chain_id # self_chain_id
           \/ d.data.client_id # agg.counterparty_client_id
           \/ d.chain_id # agg.counterparty_chain_id
        THEN Panic ELSE
        Ok(<<LcMsg(lc, "Fetch", this_chain_id,
                [fetch |-> "UpdateHeaders",
                 client_id |-> agg.client_id,
                 counterparty_client_id |-> agg.counterparty_client_id,
                 counterparty_chain_id |-> d.chain_id,
                 update_from |-> trusted_client_state.height,
                 update_to |-> agg.update_to])>>)

\* mutant of AggregateWaitForTrustedHeight: the client is updated to the height
\* instead of being waited for
AggregateWaitForTrustedHeight_Updates(lc, this_chain_id, agg, data) ==
    Ok(<<mk_aggregate_update(lc, this_chain_id, agg.client_id,
                             agg.counterparty_client_id, agg.wait_for)>>)

\* the chain_id that identifies the datum is bound and never compared
AggregateWaitForTrustedHeight(lc, this_chain_id, agg, data) ==
    IF ~HasData(data, lc, "TrustedClientState") THEN Panic ELSE
    LET d == Pluck(data, lc, "TrustedClientState")
        counterparty_chain_id == d.data.trusted_client_state.chain_id
    IN  Ok(<<LcMsg(Counterparty(lc), "Wait", counterparty_chain_id,
                WaitForTrustedHeight(agg.counterparty_client_id, agg.wait_for,
                                     agg.client_id, this_chain_id))>>)

ConsensusStateProofAtLatestHeight(lc, this_chain_id, agg, data) ==
    IF ~HasData(data, lc, "TrustedClientState") THEN Panic ELSE
    LET d == Pluck(data, lc, "TrustedClientState") IN
    IF this_chain_id # d.chain_id \/ agg.client_id # d.data.client_id
    THEN Panic ELSE
    Ok(<<LcMsg(lc, "Fetch", this_chain_id,
            FetchStateProof(agg.at,
                [path |-> "ClientConsensusStatePath",
                 client_id |-> agg.client_id,
                 height |-> d.data.trusted_client_state.height]))>>)

\* mutant of ProofFetch: the consensus state is proven at the height it is of
ProofFetch_AtConsensusHeight(lc, chain_id, at, path) ==
    LcMsg(lc, "Fetch", chain_id,
        FetchStateProof(IF path.path = "ClientConsensusStatePath"
                        THEN path.height ELSE at, path))

ProofFetch(lc, chain_id, at, path) ==
    LcMsg(lc, "Fetch", chain_id, FetchStateProof(at, path))

HandshakeMsgs ==
    {"ConnectionOpenTry", "ConnectionOpenAck", "ConnectionOpenConfirm",
     "ChannelOpenTry", "ChannelOpenAck", "ChannelOpenConfirm"}

\* the fetches AggregateMsgAfterUpdate fans out, all at the fetched height
AfterUpdateQueue(lc, this_chain_id, agg, at, trusted_client_state_height) ==
    LET event == agg.event
        client_state == ProofFetch(lc, this_chain_id, at,
            [path |-> "ClientStatePath", client_id |-> event.client_id])
        consensus_state == ProofFetch(lc, this_chain_id, at,
            [path |-> "ClientConsensusStatePath",
             client_id |-> event.client_id,
             height |-> trusted_client_state_height])
        connection == ProofFetch(lc, this_chain_id, at,
            [path |-> "ConnectionPath", connection_id |-> event.connection_id])
        channel == ProofFetch(lc, this_chain_id, at,
            [path |-> "ChannelEndPath", port_id |-> event.port_id,
             channel_id |-> event.channel_id])
    IN  CASE agg.msg \in {"ConnectionOpenTry", "ConnectionOpenAck"} ->
                <<client_state, consensus_state, connection>>
          [] agg.msg = "ConnectionOpenConfirm" -> <<connection>>
          [] agg.msg = "ChannelOpenTry" ->
                <<Aggregate(
                    <<LcMsg(lc, "Fetch", this_chain_id,
                          FetchChannelEnd(at, event.port_id, event.channel_id))>>,
                    <<>>,
                    AggregateReceiver(lc, this_chain_id,
                        [aggregate |-> "ConnectionFetchFromChannelEnd",
                         at |-> at])),
                  channel>>
          [] agg.msg \in {"ChannelOpenAck", "ChannelOpenConfirm"} -> <<channel>>
          [] agg.msg = "RecvPacket" ->
                <<ProofFetch(lc, this_chain_id, at,
                    [path |-> "CommitmentPath",
                     port_id |-> event.packet_src_port,
                     channel_id |-> event.packet_src_channel,
                     sequence |-> event.packet_sequence])>>
          [] agg.msg = "AckPacket" ->
                <<LcMsg(lc, "Fetch", this_chain_id,
                    [fetch |-> "PacketAcknowledgement",
                     block_hash |-> agg.block_hash,
                     destination_port_id |-> event.packet_dst_port,
                     destination_channel_id |-> event.packet_dst_channel,
                     sequence |-> event.packet_sequence]),
                  ProofFetch(lc, this_chain_id, at,
                    [path |-> "AcknowledgementPath",
                     port_id |-> event.packet_dst_port,
                     channel_id |-> event.packet_dst_channel,
                     sequence |-> event.packet_sequence])>>

AggregateMsgAfterUpdate(lc, this_chain_id, agg, data) ==
    IF ~HasData(data, lc, "TrustedClientState") THEN Panic ELSE
    LET d == Pluck(data, lc, "TrustedClientState")
        trusted_client_state_fetched_at_height == d.data.fetched_at
        consensus_state_height == trusted_client_state_fetched_at_height
    IN  IF this_chain_id # d.chain_id THEN Panic
        ELSE IF /\ agg.msg \in HandshakeMsgs
                /\ \/ consensus_state_height.revision_number
                        # agg.event_height.revision_number
                   \/ ~(consensus_state_height.revision_height
                        >= agg.event_height.revision_height)
        THEN Panic
        ELSE Ok(<<Aggregate(
                AfterUpdateQueue(lc, this_chain_id, agg,
                    trusted_client_state_fetched_at_height,
                    d.data.trusted_client_state.height),
                <<LcMsg(lc, "Data", this_chain_id, d.data)>>,
                AggregateReceiver(lc, this_chain_id,
                    IF agg.msg = "AckPacket"
                    THEN [aggregate |-> agg.msg,
                          event_height |-> agg.event_height,
                          event |-> agg.event,
                          block_hash |-> agg.block_hash,
                          counterparty_client_id |->
                             agg.counterparty_client_id]
                    ELSE [aggregate |-> agg.msg,
                          event_height |-> agg.event_height,
                          event |-> agg.event])
             )>>)

\* AggregateConnectionOpenTry and AggregateConnectionOpenAck
AggregateConnectionOpenTryAck(lc, this_chain_id, agg, data) ==
    IF ~HasAll(data, lc, {"TrustedClientState", "ClientStateProof",
                          "ClientConsensusStateProof", "ConnectionProof"})
    THEN Panic ELSE
    LET tcs == Pluck(data, lc, "TrustedClientState")
        client_state_proof == Pluck(data, lc, "ClientStateProof")
        consensus_state_proof == Pluck(data, lc, "ClientConsensusStateProof")
        connection_proof == Pluck(data, lc, "ConnectionProof")
        trusted_height == agg.event_height
        trusted_client_state == tcs.data.trusted_client_state
        counterparty_chain_id == trusted_client_state.chain_id
        event == agg.event
    IN  IF \/ this_chain_id # tcs.chain_id
           \/ ~(consensus_state_proof.data.proof.proof_height.revision_height
                    >= trusted_height.revision_height)
           \/ ~(client_state_proof.data.proof.proof_height.revision_height
                    >= trusted_height.revision_height)
           \/ client_state_proof.chain_id # this_chain_id
           \/ consensus_state_proof.chain_id # this_chain_id
           \/ connection_proof.chain_id # this_chain_id
        THEN Panic
        ELSE IF agg.aggregate = "ConnectionOpenTry"
        THEN Ok(<<LcMsg(Counterparty(lc), "Msg", counterparty_chain_id,
                [msg |-> "ConnectionOpenTry",
                 client_id |-> event.counterparty_client_id,
                 client_state |-> client_state_proof.data.proof.state,
                 counterparty |->
                    [client_id |-> event.client_id,
                     connection_id |-> event.connection_id,
                     prefix |-> "ibc"],
                 counterparty_versions |->
                    connection_proof.data.proof.state.versions,
                 proof_height |-> connection_proof.data.proof.proof_height,
                 proof_init |-> connection_proof.data.proof.proof,
                 proof_client |-> client_state_proof.data.proof.proof,
                 proof_consensus |-> consensus_state_proof.data.proof.proof,
                 consensus_height |-> trusted_client_state.height])>>)
        ELSE Ok(<<LcMsg(Counterparty(lc), "Msg", counterparty_chain_id,
                [msg |-> "ConnectionOpenAck",
                 connection_id |-> event.counterparty_connection_id,
                 counterparty_connection_id |-> event.connection_id,
                 version |-> connection_proof.data.proof.state.versions[1],
                 client_state |-> client_state_proof.data.proof.state,
                 proof_height |-> connection_proof.data.proof.proof_height,
                 proof_try |-> connection_proof.data.proof.proof,
                 proof_client |-> client_state_proof.data.proof.proof,
                 proof_consensus |-> consensus_state_proof.data.proof.proof,
                 consensus_height |-> trusted_client_state.height])>>)

AggregateConnectionOpenConfirm(lc, this_chain_id, agg, data) ==
    IF ~HasAll(data, lc, {"TrustedClientState", "ConnectionProof"})
    THEN Panic ELSE
    LET tcs == Pluck(data, lc, "TrustedClientState")
        connection_proof == Pluck(data, lc, "ConnectionProof")
    IN  IF \/ this_chain_id # tcs.chain_id
           \/ connection_proof.chain_id # this_chain_id
        THEN Panic ELSE
        Ok(<<LcMsg(Counterparty(lc), "Msg",
                tcs.data.trusted_client_state.chain_id,
                [msg |-> "ConnectionOpenConfirm",
                 connection_id |-> agg.event.counterparty_connection_id,
                 proof_height |-> connection_proof.data.proof.proof_height,
                 proof_ack |-> connection_proof.data.proof.proof])>>)

\* the chain_id that identifies the connection end is bound and never compared
AggregateChannelOpenTry(lc, this_chain_id, agg, data) ==
    IF ~HasAll(data, lc, {"TrustedClientState", "ChannelEndProof",
                          "ConnectionEnd"})
    THEN Panic ELSE
    LET tcs == Pluck(data, lc, "TrustedClientState")
        channel_proof == Pluck(data, lc, "ChannelEndProof")
        connection == Pluck(data, lc, "ConnectionEnd").data.connection
        event == agg.event
    IN  IF \/ this_chain_id # tcs.chain_id
           \/ channel_proof.chain_id # this_chain_id
        THEN Panic ELSE
        Ok(<<LcMsg(Counterparty(lc), "Msg",
                tcs.data.trusted_client_state.chain_id,
                [msg |-> "ChannelOpenTry",
                 port_id |-> channel_proof.data.proof.state.counterparty.port_id,
                 channel |->
                    [state |-> "Tryopen",
                     ordering |-> channel_proof.data.proof.state.ordering,
                     counterparty |->
                        [port_id |-> event.port_id,
                         channel_id |-> event.channel_id],
                     connection_hops |->
                        <<connection.counterparty.connection_id>>,
                     version |-> event.version],
                 counterparty_version |-> event.version,
                 proof_init |-> channel_proof.data.proof.proof,
                 proof_height |-> channel_proof.data.proof.proof_height])>>)

\* AggregateChannelOpenAck and AggregateChannelOpenConfirm
AggregateChannelOpenAckConfirm(lc, this_chain_id, agg, data) ==
    IF ~HasAll(data, lc, {"TrustedClientState", "ChannelEndProof"})
    THEN Panic ELSE
    LET tcs == Pluck(data, lc, "TrustedClientState")
        channel_proof == Pluck(data, lc, "ChannelEndProof")
        event == agg.event
        port_id == channel_proof.data.proof.state.counterparty.port_id
    IN  IF \/ this_chain_id # tcs.chain_id
           \/ channel_proof.chain_id # this_chain_id
        THEN Panic
        ELSE IF agg.aggregate = "ChannelOpenAck"
        THEN Ok(<<LcMsg(Counterparty(lc), "Msg",
                tcs.data.trusted_client_state.chain_id,
                [msg |-> "ChannelOpenAck",
                 port_id |-> port_id,
                 channel_id |-> event.counterparty_channel_id,
                 counterparty_channel_id |-> event.channel_id,
                 counterparty_version |-> event.version,
                 proof_try |-> channel_proof.data.proof.proof,
                 proof_height |-> channel_proof.data.proof.proof_height])>>)
        ELSE Ok(<<LcMsg(Counterparty(lc), "Msg",
                tcs.data.trusted_client_state.chain_id,
                [msg |-> "ChannelOpenConfirm",
                 port_id |-> port_id,
                 channel_id |-> event.counterparty_channel_id,
                 proof_ack |-> channel_proof.data.proof.proof,
                 proof_height |-> channel_proof.data.proof.proof_height])>>)

Packet(event) ==
    [sequence |-> event.packet_sequence,
     source_port |-> event.packet_src_port,
     source_channel |-> event.packet_src_channel,
     destination_port |-> event.packet_dst_port,
     destination_channel |-> event.packet_dst_channel]

AggregateRecvPacket(lc, this_chain_id, agg, data) ==
    IF ~HasAll(data, lc, {"TrustedClientState", "CommitmentProof"})
    THEN Panic ELSE
    LET tcs == Pluck(data, lc, "TrustedClientState")
        commitment_proof == Pluck(data, lc, "CommitmentProof")
    IN  IF \/ this_chain_id # tcs.chain_id
           \/ commitment_proof.chain_id # this_chain_id
        THEN Panic ELSE
        Ok(<<LcMsg(Counterparty(lc), "Msg",
                tcs.data.trusted_client_state.chain_id,
                [msg |-> "RecvPacket",
                 proof_height |-> commitment_proof.data.proof.proof_height,
                 packet |-> Packet(agg.event),
                 proof_commitment |-> commitment_proof.data.proof.proof])>>)

\* the chain_id that identifies the acknowledgement is bound and never compared
AggregateAckPacket(lc, this_chain_id, agg, data) ==
    IF ~HasAll(data, lc, {"TrustedClientState", "PacketAcknowledgement",
                          "AcknowledgementProof"})
    THEN Panic ELSE
    LET tcs == Pluck(data, lc, "TrustedClientState")
        packet_acknowledgement == Pluck(data, lc, "PacketAcknowledgement")
        acknowledgement_proof == Pluck(data, lc, "AcknowledgementProof")
    IN  IF \/ this_chain_id # tcs.chain_id
           \/ acknowledgement_proof.chain_id # this_chain_id
        THEN Panic ELSE
        Ok(<<LcMsg(Counterparty(lc), "Msg",
                tcs.data.trusted_client_state.chain_id,
                [msg |-> "AckPacket",
                 proof_height |-> acknowledgement_proof.data.proof.proof_height,
                 packet |-> Packet(agg.event),
                 acknowledgement |-> packet_acknowledgement.data.ack,
                 proof_acked |-> acknowledgement_proof.data.proof.proof])>>)

AggregateFetchCounterpartyStateProof(lc, this_chain_id, agg, data) ==
    IF ~HasData(data, lc, "TrustedClientState") THEN Panic ELSE
    LET tcs == Pluck(data, lc, "TrustedClientState") IN
    IF this_chain_id # tcs.chain_id THEN Panic ELSE
    Ok(<<LcMsg(Counterparty(lc), "Fetch",
            tcs.data.trusted_client_state.chain_id, agg.fetch)>>)

\* the two data need only agree with each other, not with the receiver
AggregateCreateClient(lc, this_chain_id, agg, data) ==
    IF ~HasAll(data, Counterparty(lc), {"SelfClientState", "SelfConsensusState"})
    THEN Panic ELSE
    LET self_client_state == Pluck(data, Counterparty(lc), "SelfClientState")
        self_consensus_state ==
            Pluck(data, Counterparty(lc), "SelfConsensusState")
    IN  IF self_client_state.chain_id # self_consensus_state.chain_id
        THEN Panic ELSE
        Ok(<<LcMsg(lc, "Msg", this_chain_id,
                [msg |-> "CreateClient",
                 config |-> agg.config,
                 client_state |-> self_client_state.data.state,
                 consensus_state |-> self_consensus_state.data.state])>>)

(***************************************************************************)
(* The EVM adapter's aggregates                                            *)
(***************************************************************************)
\* mutant of CreateUpdateData: the account update is the item collected second
CreateUpdateData_ByPosition(lc, chain_id, agg, data) ==
    IF ~HasAll(data, lc, {"LightClientUpdate", "AccountUpdate", "BeaconGenesis"})
    THEN Panic ELSE
    LET light_client_update == Pluck(data, lc, "LightClientUpdate")
        account_update == Pluck(data, lc, "AccountUpdate")
        beacon_genesis == Pluck(data, lc, "BeaconGenesis")
        req == agg.req
        header ==
            [consensus_update |-> agg.light_client_update,
             trusted_sync_committee |->
                [trusted_height |->
                    Height(EVM_REVISION_NUMBER, agg.currently_trusted_slot),
                 is_next |-> agg.is_next,
                 sync_committee |->
                    light_client_update.data.payload.next_sync_committee],
             account_update |-> data[2].data.payload]
    IN  IF \/ light_client_update.chain_id # account_update.chain_id
           \/ chain_id # account_update.chain_id
           \/ chain_id # beacon_genesis.chain_id
        THEN Panic ELSE
        Ok(<<Sequence(<<
            LcMsg(Counterparty(lc), "Wait", req.counterparty_chain_id,
                WaitForTimestamp(
                    beacon_genesis.data.payload.genesis_time
                    + header.consensus_update.signature_slot * SECONDS_PER_SLOT)),
            LcMsg(Counterparty(lc), "Msg", req.counterparty_chain_id,
                [msg |-> "UpdateClient",
                 client_id |-> req.counterparty_client_id,
                 client_message |-> header,
                 update_from |->
                    Height(EVM_REVISION_NUMBER, agg.currently_trusted_slot)])
        >>)>>)

CreateUpdateData(lc, chain_id, agg, data) ==
    IF ~HasAll(data, lc, {"LightClientUpdate", "AccountUpdate", "BeaconGenesis"})
    THEN Panic ELSE
    LET light_client_update == Pluck(data, lc, "LightClientUpdate")
        account_update == Pluck(data, lc, "AccountUpdate")
        beacon_genesis == Pluck(data, lc, "BeaconGenesis")
        req == agg.req
        header ==
            [consensus_update |-> agg.light_client_update,
             trusted_sync_committee |->
                [trusted_height |->
                    Height(EVM_REVISION_NUMBER, agg.currently_trusted_slot),
                 is_next |-> agg.is_next,
                 sync_committee |->
                    light_client_update.data.payload.next_sync_committee],
             account_update |-> account_update.data.payload]
    IN  IF \/ light_client_update.chain_id # account_update.chain_id
           \/ chain_id # account_update.chain_id
           \/ chain_id # beacon_genesis.chain_id
        THEN Panic ELSE
        Ok(<<Sequence(<<
            LcMsg(Counterparty(lc), "Wait", req.counterparty_chain_id,
                WaitForTimestamp(
                    beacon_genesis.data.payload.genesis_time
                    + header.consensus_update.signature_slot * SECONDS_PER_SLOT)),
            LcMsg(Counterparty(lc), "Msg", req.counterparty_chain_id,
                [msg |-> "UpdateClient",
                 client_id |-> req.counterparty_client_id,
                 client_message |-> header,
                 update_from |->
                    Height(EVM_REVISION_NUMBER, agg.currently_trusted_slot)])
        >>)>>)

MakeCreateUpdatesData(lc, chain_id, agg, data) ==
    IF ~HasData(data, lc, "FinalityUpdate") THEN Panic ELSE
    LET d == Pluck(data, lc, "FinalityUpdate")
        req == agg.req
        target_period == sync_committee_period(d.data.payload.attested_slot)
        trusted_period == sync_committee_period(req.update_from.revision_height)
    IN  IF chain_id # d.chain_id \/ ~(trusted_period <= target_period)
        THEN Panic ELSE
        Ok(<<Aggregate(
            <<EvmFetch(lc, chain_id,
                [evm |-> "FetchLightClientUpdates",
                 trusted_period |-> trusted_period,
                 target_period |-> target_period])>>,
            <<>>,
            AggregateReceiver(lc, chain_id,
                [aggregate |-> "LightClientSpecific",
                 evm |-> "MakeCreateUpdatesFromLightClientUpdates",
                 req |-> req,
                 trusted_height |-> req.update_from,
                 finality_update |-> d.data.payload]))>>)

MakeCreateUpdatesFromLightClientUpdatesData(lc, chain_id, agg, data) ==
    IF ~HasData(data, lc, "LightClientUpdates") THEN Panic ELSE
    LET d == Pluck(data, lc, "LightClientUpdates")
        req == agg.req
        light_client_updates_ == d.data.payload
        n == Len(light_client_updates_)
        target_period == sync_committee_period(agg.finality_update.signature_slot)
        trusted_period == sync_committee_period(req.update_from.revision_height)
        updates ==
            [i \in 1..n |->
                make_create_update(lc, req, chain_id,
                    IF i = 1 THEN agg.trusted_height.revision_height
                    ELSE light_client_updates_[i - 1].attested_slot,
                    light_client_updates_[i], TRUE)]
        last_update_block_number ==
            IF n = 0 THEN agg.trusted_height.revision_height
            ELSE light_client_updates_[n].attested_slot
        lc_updates == IF trusted_period < target_period THEN updates ELSE <<>>
        does_not_have_finality_update ==
            last_update_block_number >= req.update_to.revision_height
        finality_update_msg ==
            IF does_not_have_finality_update THEN <<>>
            ELSE <<make_create_update(lc, req, chain_id,
                        last_update_block_number,
                        [attested_slot |-> agg.finality_update.attested_slot,
                         signature_slot |-> agg.finality_update.signature_slot,
                         next_sync_committee |-> 0],
                        FALSE)>>
    IN  IF chain_id # d.chain_id THEN Panic
        ELSE Ok(<<Sequence(lc_updates \o finality_update_msg)>>)

EvmAggregate(lc, chain_id, agg, data) ==
    CASE agg.evm = "CreateUpdate" -> CreateUpdateData(lc, chain_id, agg, data)
      [] agg.evm = "MakeCreateUpdates" ->
            MakeCreateUpdatesData(lc, chain_id, agg, data)
      [] agg.evm = "MakeCreateUpdatesFromLightClientUpdates" ->
            MakeCreateUpdatesFromLightClientUpdatesData(lc, chain_id, agg, data)

do_create(receiver, data) ==
    LET lc == receiver.lc
        chain_id == receiver.chain_id
        msg == receiver.data
        a == msg.aggregate
    IN  CASE a \in {"ConnectionOpenTry", "ConnectionOpenAck"} ->
                AggregateConnectionOpenTryAck(lc, chain_id, msg, data)
          [] a = "ConnectionOpenConfirm" ->
                AggregateConnectionOpenConfirm(lc, chain_id, msg, data)
          [] a = "ChannelOpenTry" ->
                AggregateChannelOpenTry(lc, chain_id, msg, data)
          [] a \in {"ChannelOpenAck", "ChannelOpenConfirm"} ->
                AggregateChannelOpenAckConfirm(lc, chain_id, msg, data)
          [] a = "UpdateClientFromClientId" ->
                AggregateUpdateClientFromClientId(lc, chain_id, msg, data)
          [] a = "UpdateClient" ->
                AggregateUpdateClient(lc, chain_id, msg, data)
          [] a = "UpdateClientWithCounterpartyChainIdData" ->
                AggregateUpdateClientWithCounterpartyChainId(lc, chain_id, msg,
                                                             data)
          [] a = "CreateClient" ->
                AggregateCreateClient(lc, chain_id, msg, data)
          [] a = "ConsensusStateProofAtLatestHeight" ->
                ConsensusStateProofAtLatestHeight(lc, chain_id, msg, data)
          [] a = "AggregateMsgAfterUpdate" ->
                AggregateMsgAfterUpdate(lc, chain_id, msg, data)
          [] a = "LightClientSpecific" ->
                IF chain_id \in union THEN Panic
                ELSE EvmAggregate(lc, chain_id, msg, data)
          [] a = "ConnectionFetchFromChannelEnd" ->
                AggregateConnectionFetchFromChannelEnd(lc, chain_id, msg, data)
          [] a = "ChannelHandshakeUpdateClient" ->
                AggregateChannelHandshakeUpdateClient(lc, chain_id, msg, data)
          [] a = "PacketUpdateClient" ->
                AggregatePacketUpdateClient(lc, chain_id, msg, data)
          [] a = "RecvPacket" -> AggregateRecvPacket(lc, chain_id, msg, data)
          [] a = "AckPacket" -> AggregateAckPacket(lc, chain_id, msg, data)
          [] a = "WaitForTrustedHeight" ->
                AggregateWaitForTrustedHeight(lc, chain_id, msg, data)
          [] a = "FetchCounterpartyStateproof" ->
                AggregateFetchCounterpartyStateProof(lc, chain_id, msg, data)

(***************************************************************************)
(* The reducer: handle_msg, handle_msg_generic                             *)
(***************************************************************************)
\* what the chain adapter's msg() may answer
Outcomes == {"ok", "revert", "fatal"}

\* mutant of do_msg: a reverted submission is put back on the queue
do_msg_Resubmit(chain_id, data, outcome) ==
    CASE outcome = "ok" ->
            [Ok(<<>>) EXCEPT !.sent = <<[chain_id |-> chain_id, msg |-> data]>>]
      [] outcome = "revert" -> Ok(<<LcMsg(LcOf(chain_id), "Msg", chain_id, data)>>)
      [] outcome = "fatal" -> Panic

\* mutant of do_msg: a send error that is no revert is logged like a revert
do_msg_Swallowed(chain_id, data, outcome) ==
    CASE outcome = "ok" ->
            [Ok(<<>>) EXCEPT !.sent = <<[chain_id |-> chain_id, msg |-> data]>>]
      [] outcome = "revert" -> Ok(<<>>)
      [] outcome = "fatal" -> Ok(<<>>)

\* LcMsg::Msg: a sent transaction and a revert both return; any other
\* failure of the submission is not recoverable
do_msg(chain_id, data, outcome) ==
    CASE outcome = "ok" ->
            [Ok(<<>>) EXCEPT !.sent = <<[chain_id |-> chain_id, msg |-> data]>>]
      [] outcome = "revert" -> Ok(<<>>)
      [] outcome = "fatal" -> Panic

\* mutant of received_data: the panic that the code has commented out
received_data_Panic(data) == Panic

\* LcMsg::Data: "received data outside of an aggregation" is logged and nothing
\* is returned
received_data(data) == Ok(<<>>)

handle_msg_generic(msg, outcome) ==
    CASE msg.kind = "Data" -> received_data(msg.data)
      [] msg.kind = "Aggregate" -> Panic
      [] msg.kind \in {"Event", "Fetch", "Msg", "Wait"} ->
            IF ~get_lc_ok(msg.lc, msg.chain_id) THEN Panic
            ELSE CASE msg.kind = "Event" ->
                        handle_event(msg.lc, msg.chain_id, msg.data)
                   [] msg.kind = "Fetch" ->
                        handle_fetch(msg.lc, msg.chain_id, msg.data)
                   [] msg.kind = "Msg" -> do_msg(msg.chain_id, msg.data, outcome)
                   [] msg.kind = "Wait" ->
                        handle_wait(msg.lc, msg.chain_id, msg.data)

\* mutant of handle_defer_until: the deferral is dropped at once
handle_defer_until_Skipped(timestamp) == Ok(<<>>)

\* mutant of handle_defer_until: the comparison is the other way round
handle_defer_until_Inverted(timestamp) ==
    IF now >= timestamp
    THEN [Ok(<<DeferUntil(timestamp)>>) EXCEPT !.slept = 1]
    ELSE Ok(<<>>)

\* RelayerMsg::DeferUntil: not yet due, sleep a second and re-emit
handle_defer_until(timestamp) ==
    IF now < timestamp
    THEN [Ok(<<DeferUntil(timestamp)>>) EXCEPT !.slept = 1]
    ELSE Ok(<<>>)

not_data(m) == ~is_data(m)

\* mutant of message_expired: a message expires at its timeout, not after it
message_expired_AtDeadline(timeout_timestamp) == now >= timeout_timestamp

\* RelayerMsg::Timeout: the message has expired
message_expired(timeout_timestamp) == now > timeout_timestamp

\* mutant of unexpired_successors: each successor is put under the timeout again
unexpired_successors_Rewrapped(timeout_timestamp, msgs) ==
    [i \in DOMAIN msgs |-> Timeout(timeout_timestamp, msgs[i])]

\* RelayerMsg::Timeout, not expired: what handling the inner message returns is
\* returned as it is
unexpired_successors(timeout_timestamp, msgs) == msgs

\* mutant of prepend_successors: the successors go behind the remaining elements
prepend_successors_Behind(seq, msgs) == seq \o msgs

\* RelayerMsg::Sequence: for msg in msgs.into_iter().rev() { seq.push_front(msg) }
prepend_successors(seq, msgs) == msgs \o seq

\* mutant of requeue_successors: the successors go to the front of the queue
requeue_successors_Front(queue_, msgs) == SelectSeq(msgs, not_data) \o queue_

\* RelayerMsg::Aggregate: a successor that is no Data is pushed to the back of
\* the queue
requeue_successors(queue_, msgs) == queue_ \o SelectSeq(msgs, not_data)

\* RelayerMsg::Aggregate: a successor that is Data is pushed to the back of data
collect_data(data, msgs) == data \o SelectSeq(msgs, is_data)

RECURSIVE handle_msg(_, _)

handle_msg(msg, outcome) ==
    CASE msg.tag = "Lc" -> handle_msg_generic(msg, outcome)
      [] msg.tag = "DeferUntil" -> handle_defer_until(msg.timestamp)
      [] msg.tag = "Timeout" ->
            IF message_expired(msg.timeout_timestamp) THEN Ok(<<>>)
            ELSE LET msgs == handle_msg(msg.msg, outcome) IN
                 IF msgs.panic THEN msgs
                 ELSE [msgs EXCEPT !.msgs =
                        unexpired_successors(msg.timeout_timestamp, msgs.msgs)]
      [] msg.tag = "Sequence" ->
            IF msg.seq = <<>> THEN Ok(<<>>)
            ELSE LET msgs == handle_msg(Head(msg.seq), outcome) IN
                 IF msgs.panic THEN msgs
                 ELSE [msgs EXCEPT !.msgs =
                        <<flatten_seq(Sequence(
                            prepend_successors(Tail(msg.seq), msgs.msgs)))>>]
      [] msg.tag = "Retry" -> Panic
      [] msg.tag = "Aggregate" ->
            IF msg.queue # <<>>
            THEN LET msgs == handle_msg(Head(msg.queue), outcome) IN
                 IF msgs.panic THEN msgs
                 ELSE [msgs EXCEPT !.msgs =
                        <<Aggregate(
                            requeue_successors(Tail(msg.queue), msgs.msgs),
                            collect_data(msg.data, msgs.msgs),
                            msg.receiver)>>]
            ELSE do_create(msg.receiver, msg.data)

(***************************************************************************)
(* InMemoryQueue                                                           *)
(***************************************************************************)
\* mutant of push_back: the item goes to the head
push_back_AtHead(q, item) == <<item>> \o q

push_back(q, item) == Append(q, item)

\* mutant of push_front: the item goes to the tail
push_front_AtTail(q, item) == Append(q, item)

push_front(q, item) == <<item>> \o q

\* mutant of extend: the new messages go in front of the queued ones
extend_InFront(q, new_msgs) == new_msgs \o q

extend(q, new_msgs) == q \o new_msgs

QueueMsgs == {DeferUntil(t) : t \in 1..MaxTimestamp}

SuccessorLists ==
    {<<>>} \cup {<<m>> : m \in QueueMsgs}
           \cup {<<m, n>> : m \in QueueMsgs, n \in QueueMsgs}

(***************************************************************************)
(* The ucs01-relay contract: storage, calls and results                    *)
(***************************************************************************)
\* env.contract.address
ContractAddr == "ucs01-relay"

\* InitMsg.gov_contract
GovContract == "gov"

\* the accounts that call the contract
Callers == {ContractAddr, GovContract}

\* Ics20Protocol::VERSION, Ucs01Protocol::VERSION
ICS20_VERSION == "ics20-1"

UCS01_VERSION == "ucs01-0"

\* the protocol versions a ChannelInfo may hold
StoredVersions == {ICS20_VERSION, UCS01_VERSION, "ics20-2"}

ChannelIds == {"channel-0", "channel-1"}

\* CHANNEL_INFO holds nothing under the key
NoChannelInfo == [protocol_version |-> "none"]

\* ChannelInfo.endpoint of a stored channel
ChannelEndpoint(channel_id) == [port_id |-> "wasm.ucs01-relay", channel_id |-> channel_id]

\* InitMsg.default_timeout
DefaultTimeout == 1

\* env.block.time
BlockTimes == {0, 1}

\* a denom is a path of port/channel prefixes in front of a base denom
DenomPrefix(endpoint) == <<endpoint.port_id, endpoint.channel_id>>

Coin(denom, amount) == [denom |-> denom, amount |-> amount]

\* info.funds: none, one native coin, one coin that came in over channel-0, and
\* a list that names a denom twice
FundsSamples ==
    {<<>>,
     <<Coin(<<"muno">>, 1)>>,
     <<Coin(DenomPrefix(ChannelEndpoint("channel-0")) \o <<"muno">>, 1)>>,
     <<Coin(<<"muno">>, 1), Coin(<<"muno">>, 1)>>}

\* Coins::try_from(funds) fails when a denom is named twice
CoinsDecode(funds) ==
    \A i, j \in 1..Len(funds) : i # j => funds[i].denom # funds[j].denom

NoError == [error |-> "None"]

\* Err(error)
ContractErr(error) ==
    [ok |-> FALSE, error |-> error, messages |-> <<>>, events |-> <<>>]

\* Ok(Response::new().add_messages(..).add_events(..))
Response(messages, events) ==
    [ok |-> TRUE, error |-> NoError, messages |-> messages, events |-> events]

\* the encoding of a protocol's packets: Ics20Packet is JSON, Ucs01TransferPacket
\* is an Ethereum ABI tuple
EncodingOf(protocol_version) ==
    IF protocol_version = ICS20_VERSION THEN "json" ELSE "ethabi"

\* TryInto<Binary> for a protocol's packet
EncodePacket(protocol_version, packet) ==
    [encoding |-> EncodingOf(protocol_version), packet |-> packet]

TransferPacketCommon(sender, receiver, tokens, extension) ==
    [sender |-> sender, receiver |-> receiver, tokens |-> tokens,
     extension |-> extension]

\* bytes that are no packet of either protocol
Garbage == [encoding |-> "garbage", packet |-> <<>>]

\* TryFrom<Binary> for a protocol's packet succeeds on its own encoding
PacketDecodes(protocol_version, raw_packet) ==
    raw_packet.encoding = EncodingOf(protocol_version)

\* TransferToken::normalize_for_ibc_transfer: a denom that came in over this
\* endpoint loses the endpoint's prefix, any other denom gets it
IsForeign(denom, endpoint) ==
    /\ Len(denom) > Len(DenomPrefix(endpoint))
    /\ SubSeq(denom, 1, Len(DenomPrefix(endpoint))) = DenomPrefix(endpoint)

normalize_for_ibc_transfer(token, endpoint) ==
    IF IsForeign(token.denom, endpoint)
    THEN Coin(SubSeq(token.denom, Len(DenomPrefix(endpoint)) + 1, Len(token.denom)),
              token.amount)
    ELSE Coin(DenomPrefix(endpoint) \o token.denom, token.amount)

\* send_tokens: of the normalized tokens, one that carries the endpoint's prefix
\* is local and stays in escrow with the contract; one without it goes back over
\* the channel it came in, and its voucher is burnt
send_tokens(endpoint, sender, receiver, tokens) ==
    LET burn(token) ==
            [token_msg |-> "BurnTokens",
             denom |-> DenomPrefix(endpoint) \o token.denom,
             amount |-> token.amount, burn_from_address |-> ContractAddr]
        escrowed(token) == IsForeign(token.denom, endpoint)
        burnt == SelectSeq(tokens, LAMBDA token : ~escrowed(token))
    IN  [i \in 1..Len(burnt) |-> burn(burnt[i])]

\* receive_phase1_transfer: a token that returns home leaves the escrow, any
\* other token is minted under this endpoint's prefix
receive_phase1_transfer(endpoint, receiver, tokens) ==
    [i \in 1..Len(tokens) |->
        IF IsForeign(tokens[i].denom, endpoint)
        THEN [token_msg |-> "Send", to_address |-> receiver,
              denom |-> normalize_for_ibc_transfer(tokens[i], endpoint).denom,
              amount |-> tokens[i].amount]
        ELSE [token_msg |-> "MintTokens", mint_to_address |-> receiver,
              denom |-> DenomPrefix(endpoint) \o tokens[i].denom,
              amount |-> tokens[i].amount]]

\* IbcMsg::SendPacket
SendPacket(channel_id, data, timeout) ==
    [token_msg |-> "SendPacket", channel_id |-> channel_id, data |-> data,
     timeout |-> timeout]

\* TransferProtocol::send
send(protocol_version, channel_id, input, extension) ==
    LET endpoint == ChannelEndpoint(channel_id)
        tokens ==
            [i \in 1..Len(input.tokens) |->
                normalize_for_ibc_transfer(input.tokens[i], endpoint)]
        packet ==
            TransferPacketCommon(input.sender, input.receiver, tokens, extension)
        send_msgs ==
            send_tokens(endpoint, packet.sender, packet.receiver, packet.tokens)
    IN  Response(
            send_msgs \o
            <<SendPacket(channel_id, EncodePacket(protocol_version, packet),
                         input.current_time + input.timeout_delta)>>,
            <<[event |-> "ibc_transfer", sender |-> input.sender,
               receiver |-> input.receiver, memo |-> extension,
               tokens |-> tokens],
              [event |-> "message", module |-> "transfer"]>>)

\* mutant of receive_phase1: every caller is let through
receive_phase1_AnyCaller(protocol_version, channel_id, caller, raw_packet) ==
    IF ~PacketDecodes(protocol_version, raw_packet)
    THEN ContractErr([error |-> "EncodingError"])
    ELSE Response(
            receive_phase1_transfer(ChannelEndpoint(channel_id),
                raw_packet.packet.receiver, raw_packet.packet.tokens),
            <<>>)

\* TransferProtocol::receive_phase1
receive_phase1(protocol_version, channel_id, caller, raw_packet) ==
    IF ~PacketDecodes(protocol_version, raw_packet)
    THEN ContractErr([error |-> "EncodingError"])
    ELSE IF caller # ContractAddr
    THEN ContractErr([error |-> "Unauthorized"])
    ELSE Response(
            receive_phase1_transfer(ChannelEndpoint(channel_id),
                raw_packet.packet.receiver, raw_packet.packet.tokens),
            <<>>)

UnknownProtocol(channel_id, protocol_version) ==
    [error |-> "UnknownProtocol", channel_id |-> channel_id,
     protocol_version |-> protocol_version]

\* mutant of execute_transfer: a version that is not ICS20 runs as UCS01
execute_transfer_DefaultUcs01(env, info, msg) ==
    IF ~CoinsDecode(info.funds)
    THEN ContractErr([error |-> "Couldn't decode funds to Coins"])
    ELSE IF info.funds = <<>> THEN ContractErr([error |-> "NoFunds"])
    ELSE IF CHANNEL_INFO[msg.channel] = NoChannelInfo
    THEN ContractErr([error |-> "NotFound"])
    ELSE
    LET channel_info == CHANNEL_INFO[msg.channel]
        input ==
            [current_time |-> env.time,
             timeout_delta |-> CONFIG.default_timeout,
             sender |-> info.sender,
             receiver |-> msg.receiver,
             tokens |-> info.funds]
    IN  IF channel_info.protocol_version = ICS20_VERSION
        THEN send(ICS20_VERSION, msg.channel, input, msg.memo)
        ELSE send(UCS01_VERSION, msg.channel, input, "")

execute_transfer(env, info, msg) ==
    IF ~CoinsDecode(info.funds)
    THEN ContractErr([error |-> "Couldn't decode funds to Coins"])
    ELSE IF info.funds = <<>> THEN ContractErr([error |-> "NoFunds"])
    ELSE IF CHANNEL_INFO[msg.channel] = NoChannelInfo
    THEN ContractErr([error |-> "NotFound"])
    ELSE
    LET channel_info == CHANNEL_INFO[msg.channel]
        input ==
            [current_time |-> env.time,
             timeout_delta |-> CONFIG.default_timeout,
             sender |-> info.sender,
             receiver |-> msg.receiver,
             tokens |-> info.funds]
    IN  CASE channel_info.protocol_version = ICS20_VERSION ->
                send(ICS20_VERSION, msg.channel, input, msg.memo)
          [] channel_info.protocol_version = UCS01_VERSION ->
                send(UCS01_VERSION, msg.channel, input, "")
          [] OTHER ->
                ContractErr(UnknownProtocol(msg.channel,
                                            channel_info.protocol_version))

execute_receive_phase1(env, info, msg) ==
    IF CHANNEL_INFO[msg.channel] = NoChannelInfo
    THEN ContractErr([error |-> "NotFound"])
    ELSE
    LET channel_info == CHANNEL_INFO[msg.channel] IN
        CASE channel_info.protocol_version = ICS20_VERSION ->
                receive_phase1(ICS20_VERSION, msg.channel, info.sender,
                               msg.raw_packet)
          [] channel_info.protocol_version = UCS01_VERSION ->
                receive_phase1(UCS01_VERSION, msg.channel, info.sender,
                               msg.raw_packet)
          [] OTHER ->
                ContractErr(UnknownProtocol(msg.channel,
                                            channel_info.protocol_version))

\* ExecuteMsg::Transfer(TransferMsg)
TransferMsgs ==
    {[execute |-> "Transfer", channel |-> c, receiver |-> "bob", memo |-> m] :
        c \in ChannelIds, m \in {"memo"}}

\* the packets a counterparty sends to bob: a native token of its side, and a
\* token that left through channel-0 and comes home
PacketSamples ==
    {TransferPacketCommon("carol", "bob", <<Coin(d, 1)>>, "") :
        d \in {<<"uatom">>,
               DenomPrefix(ChannelEndpoint("channel-0")) \o <<"muno">>}}

RawPackets ==
    {EncodePacket(v, p) : v \in {ICS20_VERSION, UCS01_VERSION}, p \in PacketSamples}
    \cup {Garbage}

\* ExecuteMsg::ReceivePhase1(ReceivePhase1Msg)
ReceivePhase1Msgs ==
    {[execute |-> "ReceivePhase1", channel |-> c, raw_packet |-> r] :
        c \in ChannelIds, r \in RawPackets}

\* nothing was executed yet
NoCall == [execute |-> "None"]

\* instantiate: the Config is saved; no channel is open and nothing was called
ContractIdle ==
    /\ CHANNEL_INFO = [c \in ChannelIds |-> NoChannelInfo]
    /\ CONFIG = [default_timeout |-> DefaultTimeout]
    /\ ADMIN = GovContract
    /\ lastExecute = NoCall
    /\ lastResponse = NoCall

QueueInit ==
    /\ queue = <<>>
    /\ lock = NoWorker
    /\ poisoned = FALSE
    /\ handling = [w \in Workers |-> NoMsg]
    /\ halted = [w \in Workers |-> FALSE]
    /\ appended = <<>>
    /\ delivered = <<>>
    /\ queueBefore = <<>>
    /\ lastFlow = "None"
    /\ lastCaller = NoWorker
    /\ requeuedHead = FALSE

\* the engine's variables at boot
EngineIdle ==
    /\ now = 0
    /\ latest_height = [c \in Chains |-> 1]
    /\ latest_timestamp = [c \in Chains |-> 0]
    /\ client_height = [c \in Chains |-> 1]
    /\ pc = "select"
    /\ ingress = 0
    /\ panicked = FALSE
    /\ lastMsg = NoMsg
    /\ lastResult = NoMsg
    /\ lastNow = 0
    /\ submitted = <<>>

QueueStart == QueueInit /\ EngineIdle /\ ContractIdle

\* a caller that is running and not inside process
Idle(w) == ~halted[w] /\ handling[w] = NoMsg

\* mutant of CanLock: the mutex excludes nobody
CanLock_NoMutex == ~poisoned

\* self.0.lock().expect("mutex is poisoned") succeeds
CanLock == lock = NoWorker /\ ~poisoned

Enqueue(w, item) ==
    /\ Idle(w)
    /\ CanLock
    /\ Len(appended) < MaxAppended
    /\ queue' = push_back(queue, item)
    /\ appended' = Append(appended, item)
    /\ lastFlow' = "Enqueue"
    /\ lastCaller' = w
    /\ UNCHANGED contractVars
    /\ UNCHANGED <<lock, poisoned, handling, halted, delivered, queueBefore,
                   requeuedHead>>
    /\ UNCHANGED engineVars

\* mutant of LockPoisoned: the poison is ignored and the caller runs on
LockPoisoned_Recovered(w) ==
    /\ Idle(w)
    /\ lock = NoWorker
    /\ poisoned
    /\ lastFlow' = "Poisoned"
    /\ lastCaller' = w
    /\ UNCHANGED contractVars
    /\ UNCHANGED <<queue, lock, poisoned, handling, halted, appended, delivered,
                   queueBefore, requeuedHead>>
    /\ UNCHANGED engineVars

\* lock() on a poisoned mutex: expect panics, in enqueue and in process alike
LockPoisoned(w) ==
    /\ Idle(w)
    /\ lock = NoWorker
    /\ poisoned
    /\ halted' = [halted EXCEPT ![w] = TRUE]
    /\ lastFlow' = "Poisoned"
    /\ lastCaller' = w
    /\ UNCHANGED contractVars
    /\ UNCHANGED <<queue, lock, poisoned, handling, appended, delivered,
                   queueBefore, requeuedHead>>
    /\ UNCHANGED engineVars

\* process: lock, pop_front gives Some(msg), f(msg.clone()) starts
ProcessBegin(w) ==
    /\ Idle(w)
    /\ CanLock
    /\ queue # <<>>
    /\ lock' = w
    /\ handling' = [handling EXCEPT ![w] = Head(queue)]
    /\ queue' = Tail(queue)
    /\ queueBefore' = queue
    /\ delivered' = IF requeuedHead THEN delivered
                    ELSE Append(delivered, Head(queue))
    /\ requeuedHead' = FALSE
    /\ lastFlow' = "Handling"
    /\ lastCaller' = w
    /\ UNCHANGED contractVars
    /\ UNCHANGED <<poisoned, halted, appended>>
    /\ UNCHANGED engineVars

\* mutant of ProcessEmpty: the front is unwrapped, and the caller panics with
\* the lock held
ProcessEmpty_Unwrapped(w) ==
    /\ Idle(w)
    /\ CanLock
    /\ queue = <<>>
    /\ lastFlow' = "Empty"
    /\ lastCaller' = w
    /\ queueBefore' = queue
    /\ halted' = [halted EXCEPT ![w] = TRUE]
    /\ poisoned' = TRUE
    /\ UNCHANGED contractVars
    /\ UNCHANGED <<queue, lock, handling, appended, delivered, requeuedHead>>
    /\ UNCHANGED engineVars

\* process: pop_front gives None
ProcessEmpty(w) ==
    /\ Idle(w)
    /\ CanLock
    /\ queue = <<>>
    /\ lastFlow' = "Empty"
    /\ lastCaller' = w
    /\ queueBefore' = queue
    /\ UNCHANGED contractVars
    /\ UNCHANGED <<queue, lock, poisoned, handling, halted, appended,
                   delivered, requeuedHead>>
    /\ UNCHANGED engineVars

ProcessSuccess(w, new_msgs) ==
    /\ handling[w] # NoMsg
    /\ lock = w
    /\ Len(appended) + Len(new_msgs) <= MaxAppended
    /\ queue' = extend(queue, new_msgs)
    /\ appended' = appended \o new_msgs
    /\ handling' = [handling EXCEPT ![w] = NoMsg]
    /\ lock' = NoWorker
    /\ lastFlow' = "Success"
    /\ lastCaller' = w
    /\ UNCHANGED contractVars
    /\ UNCHANGED <<poisoned, halted, delivered, queueBefore, requeuedHead>>
    /\ UNCHANGED engineVars

ProcessRequeue(w) ==
    /\ handling[w] # NoMsg
    /\ lock = w
    /\ queue' = push_front(queue, handling[w])
    /\ handling' = [handling EXCEPT ![w] = NoMsg]
    /\ lock' = NoWorker
    /\ lastFlow' = "Requeue"
    /\ lastCaller' = w
    /\ requeuedHead' = TRUE
    /\ UNCHANGED contractVars
    /\ UNCHANGED <<poisoned, halted, appended, delivered, queueBefore>>
    /\ UNCHANGED engineVars

\* mutant of ProcessFail: the failure is swallowed and the caller goes on
ProcessFail_Swallowed(w) ==
    /\ handling[w] # NoMsg
    /\ lock = w
    /\ handling' = [handling EXCEPT ![w] = NoMsg]
    /\ lock' = NoWorker
    /\ lastFlow' = "Fail"
    /\ lastCaller' = w
    /\ UNCHANGED contractVars
    /\ UNCHANGED <<queue, poisoned, halted, appended, delivered, queueBefore,
                   requeuedHead>>
    /\ UNCHANGED engineVars

\* ProcessFlow::Fail(why) => panic!: the guard is dropped while unwinding
ProcessFail(w) ==
    /\ handling[w] # NoMsg
    /\ lock = w
    /\ halted' = [halted EXCEPT ![w] = TRUE]
    /\ poisoned' = TRUE
    /\ handling' = [handling EXCEPT ![w] = NoMsg]
    /\ lock' = NoWorker
    /\ lastFlow' = "Fail"
    /\ lastCaller' = w
    /\ UNCHANGED contractVars
    /\ UNCHANGED <<queue, appended, delivered, queueBefore, requeuedHead>>
    /\ UNCHANGED engineVars

QueueNext ==
    \/ \E w \in Workers, item \in QueueMsgs : Enqueue(w, item)
    \/ \E w \in Workers : LockPoisoned(w)
    \/ \E w \in Workers : ProcessBegin(w)
    \/ \E w \in Workers : ProcessEmpty(w)
    \/ \E w \in Workers, new_msgs \in SuccessorLists : ProcessSuccess(w, new_msgs)
    \/ \E w \in Workers : ProcessRequeue(w)
    \/ \E w \in Workers : ProcessFail(w)

SpecQueue == QueueStart /\ [][QueueNext]_vars

(***************************************************************************)
(* The engine: Voyager::run over an InMemoryQueue                          *)
(***************************************************************************)
MaxNow == MaxTimestamp + 1

Min(a, b) == IF a <= b THEN a ELSE b

ConnectionEvent(name, chain_id) ==
    [name |-> name,
     client_id |-> ClientIdOn(chain_id),
     connection_id |-> ConnectionIdOn(chain_id),
     counterparty_client_id |-> ClientIdOn(CounterpartyChain(chain_id)),
     counterparty_connection_id |->
        ConnectionIdOn(CounterpartyChain(chain_id))]

ChannelEvent(name, chain_id) ==
    [name |-> name,
     port_id |-> PortIdOn(chain_id),
     channel_id |-> ChannelIdOn(chain_id),
     counterparty_port_id |-> PortIdOn(CounterpartyChain(chain_id)),
     counterparty_channel_id |-> ChannelIdOn(CounterpartyChain(chain_id)),
     connection_id |-> ConnectionIdOn(chain_id),
     version |-> "ucs01-0"]

PacketEvent(name, chain_id) ==
    [name |-> name,
     packet_sequence |-> 1,
     packet_src_port |-> PortIdOn(chain_id),
     packet_src_channel |-> ChannelIdOn(chain_id),
     packet_dst_port |-> PortIdOn(CounterpartyChain(chain_id)),
     packet_dst_channel |-> ChannelIdOn(CounterpartyChain(chain_id)),
     connection_id |-> ConnectionIdOn(chain_id)]

\* the events the ingress of a chain turns into messages
ChainEvents(chain_id) ==
    {ConnectionEvent(n, chain_id) :
        n \in {"ConnectionOpenInit", "ConnectionOpenTry", "ConnectionOpenAck",
               "ConnectionOpenConfirm"}}
    \cup {ChannelEvent(n, chain_id) :
        n \in {"ChannelOpenInit", "ChannelOpenTry", "ChannelOpenAck",
               "ChannelOpenConfirm"}}
    \cup {PacketEvent(n, chain_id) : n \in {"SendPacket", "RecvPacket"}}
    \cup {[name |-> "CreateClient", client_id |-> ClientIdOn(chain_id)]}
    \cup (IF chain_id \in union
          THEN {[name |-> "UpdateClient", client_id |-> ClientIdOn(chain_id)],
                PacketEvent("WriteAcknowledgement", chain_id)}
          ELSE {})

\* the message the ingress of a chain makes of an event at the latest height
IbcEvent(chain_id, event) ==
    LcMsg(LcOf(chain_id), "Event", chain_id,
        [type |-> "Ibc", block_hash |-> latest_height[chain_id],
         height |-> query_latest_height(chain_id), event |-> event])

\* what the merged stream can yield now: the events of each chain at its
\* height, and the operator's Command::UpdateClient
IngressMsgs ==
    UNION {{IbcEvent(c, e) : e \in ChainEvents(c)} : c \in Chains}
    \cup {LcMsg(LcOf(c), "Event", c,
            [type |-> "Command", command |-> "UpdateClient",
             client_id |-> ClientIdOn(c),
             counterparty_client_id |-> ClientIdOn(CounterpartyChain(c))]) :
            c \in Chains}

\* what a submitted UpdateClient does to the client on the chain it went to
UpdateTarget(msg) ==
    IF "update_to" \in DOMAIN msg THEN msg.update_to.revision_height
    ELSE msg.client_message.consensus_update.attested_slot

ApplySent(heights, sent) ==
    IF sent # <<>> /\ sent[1].msg.msg = "UpdateClient"
    THEN [heights EXCEPT ![sent[1].chain_id] = Max(@, UpdateTarget(sent[1].msg))]
    ELSE heights

\* select!: a message arrived and is enqueued
RunEnqueueUpTo(msg, bound) ==
    /\ pc = "select"
    /\ ~panicked
    /\ ingress < bound
    /\ queue' = push_back(queue, msg)
    /\ ingress' = ingress + 1
    /\ pc' = "process"
    /\ UNCHANGED contractVars
    /\ UNCHANGED <<lock, poisoned, handling, halted, appended, delivered,
                   queueBefore, lastFlow, lastCaller, requeuedHead>>
    /\ UNCHANGED <<envVars, panicked, lastMsg, lastResult, lastNow, submitted>>

\* the names of the events that the ingress of a chain answers with todo!()
IngressTodo(chain_id) ==
    IF chain_id \in union
    THEN {"ClientMisbehaviour", "SubmitEvidence", "AcknowledgePacket",
          "TimeoutPacket"}
    ELSE {"UpdateClient", "ClientMisbehaviour", "SubmitEvidence",
          "AcknowledgePacket", "TimeoutPacket", "WriteAcknowledgement"}

\* the events of a chain that its ingress does not turn into a message
TodoEvents(chain_id) ==
    {[name |-> n, client_id |-> ClientIdOn(chain_id)] :
        n \in IngressTodo(chain_id)
            \cap {"UpdateClient", "ClientMisbehaviour", "SubmitEvidence"}}
    \cup {PacketEvent(n, chain_id) :
        n \in IngressTodo(chain_id)
            \cap {"AcknowledgePacket", "TimeoutPacket", "WriteAcknowledgement"}}

RunEnqueue(msg) == RunEnqueueUpTo(msg, MaxIngress)

\* select!: the stream of a chain yields an event that its ingress answers with
\* todo!(): the run loop, which polls the stream, panics
RunIngressTodo(chain_id, event) ==
    /\ pc = "select"
    /\ ~panicked
    /\ ingress < MaxIngress
    /\ event \in TodoEvents(chain_id)
    /\ panicked' = TRUE
    /\ ingress' = ingress + 1
    /\ UNCHANGED contractVars
    /\ UNCHANGED queueVars
    /\ UNCHANGED <<now, latest_height, latest_timestamp, client_height, pc,
                   lastMsg, lastResult, lastNow, submitted>>

\* select!: the buffer time of two seconds passed with no message
RunTimeout ==
    /\ pc = "select"
    /\ ~panicked
    /\ now' = Min(now + 2, MaxNow)
    /\ pc' = "process"
    /\ UNCHANGED contractVars
    /\ UNCHANGED queueVars
    /\ UNCHANGED <<latest_height, latest_timestamp, client_height, ingress,
                   panicked, lastMsg, lastResult, lastNow, submitted>>

\* queue.process(|msg| Success(handle_msg(msg, 0))) on an empty queue
RunProcessEmpty ==
    /\ pc = "process"
    /\ ~panicked
    /\ queue = <<>>
    /\ pc' = "select"
    /\ UNCHANGED contractVars
    /\ UNCHANGED queueVars
    /\ UNCHANGED <<envVars, ingress, panicked, lastMsg, lastResult, lastNow,
                   submitted>>

\* queue.process(|msg| Success(handle_msg(msg, 0))): the head is popped and
\* handled, its successors go to the tail; a panic in the handler ends the run
RunProcess(outcome) ==
    /\ pc = "process"
    /\ ~panicked
    /\ queue # <<>>
    /\ LET msg == Head(queue)
           new_msgs == handle_msg(msg, outcome)
       IN  /\ lastMsg' = msg
           /\ lastResult' = new_msgs
           /\ lastNow' = now
           /\ panicked' = new_msgs.panic
           /\ poisoned' = new_msgs.panic
           /\ queue' = extend(Tail(queue), new_msgs.msgs)
           /\ now' = Min(now + new_msgs.slept, MaxNow)
           /\ submitted' = submitted \o new_msgs.sent
           /\ client_height' = ApplySent(client_height, new_msgs.sent)
    /\ pc' = "select"
    /\ UNCHANGED contractVars
    /\ UNCHANGED <<lock, handling, halted, appended, delivered, queueBefore,
                   lastFlow, lastCaller, requeuedHead>>
    /\ UNCHANGED <<latest_height, latest_timestamp, ingress>>

\* a chain produces a block, stamped with the wall-clock time
NewBlock(chain_id) ==
    /\ latest_height[chain_id] < MaxHeight
    /\ latest_height' = [latest_height EXCEPT ![chain_id] = @ + 1]
    /\ latest_timestamp' = [latest_timestamp EXCEPT ![chain_id] = now]
    /\ UNCHANGED contractVars
    /\ UNCHANGED queueVars
    /\ UNCHANGED <<now, client_height, pc, ingress, panicked, lastMsg,
                   lastResult, lastNow, submitted>>

\* some other party updates the client a chain keeps of its counterparty
ClientAdvance(chain_id) ==
    /\ client_height[chain_id] < latest_height[CounterpartyChain(chain_id)]
    /\ client_height' =
        [client_height EXCEPT ![chain_id] =
            latest_height[CounterpartyChain(chain_id)]]
    /\ UNCHANGED contractVars
    /\ UNCHANGED queueVars
    /\ UNCHANGED <<now, latest_height, latest_timestamp, pc, ingress, panicked,
                   lastMsg, lastResult, lastNow, submitted>>

Init == QueueInit /\ EngineIdle /\ ContractIdle

Next ==
    \/ \E msg \in IngressMsgs : RunEnqueue(msg)
    \/ \E c \in Chains : \E e \in TodoEvents(c) : RunIngressTodo(c, e)
    \/ RunTimeout
    \/ RunProcessEmpty
    \/ \E outcome \in Outcomes : RunProcess(outcome)
    \/ \E c \in Chains : NewBlock(c)
    \/ \E c \in Chains : ClientAdvance(c)

Spec == Init /\ [][Next]_vars


\* the events that start a handshake, whose workflows wait for a block
HandshakeIngress ==
    {IbcEvent(c, ConnectionEvent("ConnectionOpenInit", c)) : c \in Chains}

FairNext ==
    \/ \E msg \in HandshakeIngress : RunEnqueue(msg)
    \/ RunTimeout
    \/ RunProcessEmpty
    \/ \E outcome \in Outcomes : RunProcess(outcome)
    \/ \E c \in Chains : NewBlock(c)
    \/ \E c \in Chains : ClientAdvance(c)

\* the select! timer fires, and process follows every select!
SpecFair ==
    /\ Init
    /\ [][FairNext]_vars
    /\ WF_vars(RunTimeout)
    /\ WF_vars(RunProcessEmpty)
    /\ WF_vars(\E outcome \in Outcomes : RunProcess(outcome))

(***************************************************************************)
(* Queue claims                                                            *)
(***************************************************************************)
AllButLast(s) == SubSeq(s, 1, Len(s) - 1)

\* C1: the queue is FIFO. Everything ever appended (by enqueue, or as the
\* successors of a Success, in their order) is, in the same order, first the
\* messages already handed to a handler and then the messages still queued;
\* a message put back by Requeue is the next one handed out again.
C1_Fifo ==
    appended = (IF requeuedHead THEN AllButLast(delivered) ELSE delivered)
               \o queue

C1_Witness ==
    /\ lastFlow = "Success"
    /\ Len(delivered) >= 2
    /\ delivered[1] # delivered[2]
    /\ Len(queue) >= 2
    /\ queue[1] # queue[2]

\* C2: after process with a handler that returned Requeue the queue holds
\* the same messages in the same order as before that process call.
C2_RequeueRestores == lastFlow = "Requeue" => queue = queueBefore

C2_Witness ==
    /\ lastFlow = "Requeue"
    /\ Len(queue) >= 2
    /\ queue[1] # queue[2]

\* C3: a handler result of Fail is fatal. The step that applies it panics
\* the caller, enqueues nothing (the queue and the record of appended
\* messages stay as they were after the pop), and a caller that has panicked
\* stays panicked and performs no further queue operation.
C3_FailIsFatal ==
    [][ /\ lastFlow' = "Fail" =>
            /\ halted'[lastCaller']
            /\ queue' = queue
            /\ appended' = appended
            /\ queue' = Tail(queueBefore')
        /\ \A w \in Workers : halted[w] => halted'[w] /\ lastCaller' # w
      ]_vars

C3_Witness ==
    /\ lastFlow = "Fail"
    /\ halted[lastCaller]
    /\ queue # <<>>

\* C4: dispatch is serial and the head is exclusive. At most one caller has
\* a handler running, the message it handles is in nobody else's hands nor
\* in the queue's record of hand-offs twice, and a step during which a
\* handler keeps running leaves the queue unchanged.
C4_SerialDispatch ==
    [][ /\ Cardinality({w \in Workers : handling'[w] # NoMsg}) <= 1
        /\ \A w \in Workers :
              (handling[w] # NoMsg /\ handling'[w] # NoMsg) =>
                  /\ queue' = queue
                  /\ handling'[w] = handling[w]
                  /\ lock' = w
      ]_vars

C4_Witness ==
    \E w \in Workers, v \in Workers :
        /\ w # v
        /\ handling[w] # NoMsg
        /\ Idle(v)
        /\ queue # <<>>

(***************************************************************************)
(* A kill of the process that runs over an InMemoryQueue                   *)
(***************************************************************************)
\* the process is killed while a handler's result is not yet applied, and is
\* started again: InMemoryQueue::new gives the new process an empty VecDeque
KillAndRestart(w) ==
    /\ handling[w] # NoMsg
    /\ lastMsg' = handling[w]
    /\ queue' = <<>>
    /\ lock' = NoWorker
    /\ poisoned' = FALSE
    /\ handling' = [v \in Workers |-> NoMsg]
    /\ halted' = [v \in Workers |-> FALSE]
    /\ appended' = <<>>
    /\ delivered' = <<>>
    /\ queueBefore' = <<>>
    /\ requeuedHead' = FALSE
    /\ lastCaller' = NoWorker
    /\ lastFlow' = "Restart"
    /\ UNCHANGED contractVars
    /\ UNCHANGED <<envVars, pc, ingress, panicked, lastResult, lastNow,
                   submitted>>

CrashNext ==
    \/ QueueNext
    \/ \E w \in Workers : KillAndRestart(w)

SpecCrash == QueueStart /\ [][CrashNext]_vars

\* C5: at-least-once delivery: after the process was killed between the
\* handler's return and the commit of its result and has restarted, the
\* message that was being handled is in the queue, to be delivered again
C5_AtLeastOnce ==
    lastFlow = "Restart" => \E i \in 1..Len(queue) : queue[i] = lastMsg

(***************************************************************************)
(* handle_msg as a function of one message                                 *)
(***************************************************************************)
\* the Data that handling a FetchTrustedClientState at the latest height gives
TrustedClientStateOf(chain_id) ==
    handle_fetch(LcOf(chain_id), chain_id,
        FetchTrustedClientState(Latest, ClientIdOn(chain_id))).msgs[1]

FetchTrustedClientStateOn(chain_id) ==
    LcMsg(LcOf(chain_id), "Fetch", chain_id,
        FetchTrustedClientState(Latest, ClientIdOn(chain_id)))

WaitForTrustedHeightReceiver(chain_id) ==
    AggregateReceiver(LcOf(chain_id), chain_id,
        [aggregate |-> "WaitForTrustedHeight",
         wait_for |-> query_latest_height(chain_id),
         client_id |-> ClientIdOn(chain_id),
         counterparty_client_id |-> ClientIdOn(CounterpartyChain(chain_id))])

\* one well-formed message of every variant of RelayerMsg and of LcMsg
VariantSamples ==
    LET c == "union"
        lc == LcOf(c)
    IN  {IbcEvent(c, ChannelEvent("ChannelOpenInit", c)),
         TrustedClientStateOf(c),
         FetchTrustedClientStateOn(c),
         LcMsg(lc, "Wait", c, WaitForBlock(query_latest_height(c))),
         LcMsg(lc, "Msg", c,
            [msg |-> "UpdateClient", client_id |-> ClientIdOn(c),
             update_from |-> query_latest_height(CounterpartyChain(c)),
             update_to |-> query_latest_height(CounterpartyChain(c))]),
         LcMsg(lc, "Aggregate", c, WaitForTrustedHeightReceiver(c).data),
         DeferUntil(1),
         Timeout(MaxTimestamp, DeferUntil(1)),
         Sequence(<<DeferUntil(1), DeferUntil(2)>>),
         Retry(1, DeferUntil(1)),
         Aggregate(<<FetchTrustedClientStateOn(c)>>, <<>>,
                   WaitForTrustedHeightReceiver(c))}

\* the messages a, b, c of Sequence[Sequence[a, b], c]
SequenceLeaves ==
    {DeferUntil(MaxTimestamp),
     LcMsg(LcOf("evm"), "Wait", "evm",
        WaitForBlock(Height(EVM_REVISION_NUMBER, MaxHeight))),
     Sequence(<<>>),
     Sequence(<<DeferUntil(2), Sequence(<<DeferUntil(3)>>)>>)}

NestedSequence(a, b, c) == Sequence(<<Sequence(<<a, b>>), c>>)

FlatSequence(a, b, c) == Sequence(<<a, b, c>>)

\* the message of the test `flatten`
FlattenTest ==
    Sequence(<<DeferUntil(1),
               Sequence(<<DeferUntil(2), DeferUntil(3)>>),
               Sequence(<<DeferUntil(4)>>),
               DeferUntil(5)>>)

SequenceInputs ==
    {NestedSequence(a, b, c) : a \in SequenceLeaves, b \in SequenceLeaves,
                               c \in SequenceLeaves}
    \cup {FlatSequence(a, b, c) : a \in SequenceLeaves, b \in SequenceLeaves,
                                  c \in SequenceLeaves}
    \cup {FlattenTest, Sequence(<<Sequence(<<Sequence(<<DeferUntil(1)>>)>>)>>),
          Sequence(<<>>)}

\* handle_msg run on an Aggregate until its queue is empty: the fetches of the
\* queue are answered and their Data is gathered
RECURSIVE Drain(_)

Drain(agg) ==
    IF agg.tag # "Aggregate" \/ agg.queue = <<>> THEN agg
    ELSE LET new_msgs == handle_msg(agg, "ok") IN
         IF new_msgs.panic \/ Len(new_msgs.msgs) # 1 THEN agg
         ELSE Drain(new_msgs.msgs[1])

\* the event each message after an update is made from
AfterUpdateEvent(msg, chain_id) ==
    CASE msg = "ConnectionOpenTry" -> ConnectionEvent("ConnectionOpenInit", chain_id)
      [] msg = "ConnectionOpenAck" -> ConnectionEvent("ConnectionOpenTry", chain_id)
      [] msg = "ConnectionOpenConfirm" -> ConnectionEvent("ConnectionOpenAck", chain_id)
      [] msg = "ChannelOpenTry" -> ChannelEvent("ChannelOpenInit", chain_id)
      [] msg = "ChannelOpenAck" -> ChannelEvent("ChannelOpenTry", chain_id)
      [] msg = "ChannelOpenConfirm" -> ChannelEvent("ChannelOpenAck", chain_id)
      [] msg = "RecvPacket" -> PacketEvent("SendPacket", chain_id)
      [] msg = "AckPacket" -> PacketEvent("RecvPacket", chain_id)

AfterUpdateReceiver(msg, chain_id) ==
    AggregateReceiver(LcOf(chain_id), chain_id,
        IF msg = "AckPacket"
        THEN [aggregate |-> "AggregateMsgAfterUpdate", msg |-> msg,
              event_height |-> query_latest_height(chain_id),
              event |-> AfterUpdateEvent(msg, chain_id),
              block_hash |-> latest_height[chain_id],
              counterparty_client_id |-> ClientIdOn(CounterpartyChain(chain_id))]
        ELSE [aggregate |-> "AggregateMsgAfterUpdate", msg |-> msg,
              event_height |-> query_latest_height(chain_id),
              event |-> AfterUpdateEvent(msg, chain_id)])

\* the aggregates of queue.rs whose data is of the receiver's own chain, each
\* with the fetches that feed it
AggregatesOn(chain_id) ==
    LET lc == LcOf(chain_id)
        trusted == <<FetchTrustedClientStateOn(chain_id)>>
        connection_end ==
            <<LcMsg(lc, "Fetch", chain_id,
                FetchConnectionEnd(Latest, ConnectionIdOn(chain_id)))>>
        receiver(data) == AggregateReceiver(lc, chain_id, data)
    IN  {Aggregate(trusted, <<>>, WaitForTrustedHeightReceiver(chain_id)),
         Aggregate(trusted, <<>>, receiver(
            [aggregate |-> "FetchCounterpartyStateproof",
             counterparty_client_id |-> ClientIdOn(CounterpartyChain(chain_id)),
             fetch |-> FetchStateProof(Latest,
                [path |-> "ConnectionPath",
                 connection_id |->
                    ConnectionIdOn(CounterpartyChain(chain_id))])])),
         Aggregate(trusted, <<>>, receiver(
            [aggregate |-> "ConsensusStateProofAtLatestHeight",
             client_id |-> ClientIdOn(chain_id), at |-> Latest])),
         Aggregate(trusted, <<>>, receiver(
            [aggregate |-> "UpdateClientFromClientId",
             client_id |-> ClientIdOn(chain_id),
             counterparty_client_id |->
                ClientIdOn(CounterpartyChain(chain_id))])),
         Aggregate(trusted, <<>>, receiver(
            [aggregate |-> "UpdateClient",
             update_to |-> query_latest_height(chain_id),
             client_id |-> ClientIdOn(chain_id),
             counterparty_client_id |->
                ClientIdOn(CounterpartyChain(chain_id))])),
         Aggregate(connection_end, <<>>, receiver(
            [aggregate |-> "ChannelHandshakeUpdateClient",
             update_to |-> query_latest_height(chain_id),
             event_height |-> query_latest_height(chain_id),
             channel_handshake_event |-> "Init",
             event |-> ChannelEvent("ChannelOpenInit", chain_id)])),
         Aggregate(connection_end, <<>>, receiver(
            [aggregate |-> "PacketUpdateClient",
             update_to |-> query_latest_height(chain_id),
             event_height |-> query_latest_height(chain_id),
             block_hash |-> latest_height[chain_id],
             packet_event |-> "Send",
             event |-> PacketEvent("SendPacket", chain_id)]))}
        \cup {Aggregate(trusted, <<>>, AfterUpdateReceiver(m, chain_id)) :
                m \in HandshakeMsgs \cup {"RecvPacket", "AckPacket"}}
        \cup {handle_msg(Drain(Aggregate(trusted, <<>>,
                                         AfterUpdateReceiver(m, chain_id))),
                         "ok").msgs[1] :
                m \in HandshakeMsgs \cup {"RecvPacket", "AckPacket"}}

\* the datum at index i is identified by a chain the Voyager does not hold
Misidentified(agg, i) ==
    [agg EXCEPT !.data =
        [j \in 1..Len(agg.data) |->
            IF j = i THEN [agg.data[j] EXCEPT !.chain_id = UnknownChain]
            ELSE agg.data[j]]]

\* the aggregate with the item collected first collected last
Rotated(agg) == [agg EXCEPT !.data = Tail(agg.data) \o <<Head(agg.data)>>]

AggregateInputs ==
    LET complete == {Drain(a) : a \in AggregatesOn("union") \cup AggregatesOn("evm")}
    IN  complete
        \cup {Rotated(a) : a \in {c \in complete : Len(c.data) > 1}}
        \cup UNION {{Misidentified(a, i) : i \in 1..Len(a.data)} : a \in complete}

\* the waits for a client to trust a height, as AggregateWaitForTrustedHeight
\* makes them
WaitInputs ==
    {LcMsg(LcOf(c), "Wait", c,
        WaitForTrustedHeight(ClientIdOn(c),
            Height(RevisionOf(CounterpartyChain(c)), h),
            ClientIdOn(CounterpartyChain(c)), CounterpartyChain(c))) :
        c \in Chains, h \in 1..MaxHeight}

\* the Aggregate that handle_event makes of a ChannelOpenInit, ChannelOpenTry or
\* ChannelOpenAck, with the connection end collected
ChannelWorkflowInputs ==
    {Drain(handle_msg(IbcEvent(c, ChannelEvent(n, c)), "ok").msgs[1].seq[2]) :
        c \in Chains, n \in {"ChannelOpenInit", "ChannelOpenTry", "ChannelOpenAck"}}

\* the second aggregate of the UpdateClient pipeline, entered by an event and by
\* the operator's command, with the counterparty's trusted client state collected
UpdatePipelineInputs ==
    {Drain(handle_msg(Drain(a), "ok").msgs[1]) :
        a \in {b \in AggregatesOn("union") \cup AggregatesOn("evm") :
                    b.receiver.data.aggregate
                        \in {"UpdateClient", "UpdateClientFromClientId"}}}

\* messages whose height is of another revision than the height it is compared
\* with: a wait for a block, a wait for a trusted height, and the aggregate of a
\* handshake message with the trusted client state collected
CrossRevisionInputs ==
    {LcMsg(LcOf(c), "Wait", c,
        WaitForBlock(Height(RevisionOf(CounterpartyChain(c)), h))) :
        c \in Chains, h \in 1..MaxHeight}
    \cup {LcMsg(LcOf(c), "Wait", c,
            WaitForTrustedHeight(ClientIdOn(c), Height(RevisionOf(c), h),
                ClientIdOn(CounterpartyChain(c)), CounterpartyChain(c))) :
            c \in Chains, h \in 1..MaxHeight}
    \cup {Drain(Aggregate(<<FetchTrustedClientStateOn(c)>>, <<>>,
                [AfterUpdateReceiver(m, c) EXCEPT
                    !.data.event_height =
                        Height(RevisionOf(CounterpartyChain(c)), 1)])) :
            c \in Chains, m \in HandshakeMsgs}

\* a MsgUpdateClient for each chain
MsgInputs ==
    {LcMsg(LcOf(c), "Msg", c,
        [msg |-> "UpdateClient", client_id |-> ClientIdOn(c),
         update_from |-> Height(RevisionOf(CounterpartyChain(c)), 1),
         update_to |-> query_latest_height(CounterpartyChain(c))]) :
        c \in Chains}

\* the waits for a block and for a timestamp, behind, at and ahead of the chain
BlockWaitInputs ==
    {LcMsg(LcOf(c), "Wait", c, WaitForBlock(Height(RevisionOf(c), h))) :
        c \in Chains, h \in 1..(MaxHeight + 1)}
    \cup {LcMsg(LcOf(c), "Wait", c, WaitForTimestamp(t)) :
        c \in Chains, t \in 0..MaxTimestamp}

\* the beacon slots of the header builder's inputs
MaxSlot == 5

\* Fetch::UpdateHeaders on the EVM chain, as AggregateUpdateClientWithCounterpartyChainId
\* makes it
EvmUpdateHeaders ==
    {[fetch |-> "UpdateHeaders",
      client_id |-> ClientIdOn("evm"),
      counterparty_client_id |-> ClientIdOn("union"),
      counterparty_chain_id |-> "union",
      update_from |-> Height(EVM_REVISION_NUMBER, s),
      update_to |-> Height(EVM_REVISION_NUMBER, t)] :
        s \in 0..MaxSlot, t \in 1..MaxSlot}

\* fetch_update_headers with the finality update the beacon chain answered
MakeCreateUpdatesInputs ==
    {[fetch_update_headers(LcOf("evm"), "evm", req) EXCEPT
        !.queue = <<>>,
        !.data = <<EvmData(LcOf("evm"), "evm", "FinalityUpdate",
                     [attested_slot |-> a, signature_slot |-> a + 1])>>] :
        req \in EvmUpdateHeaders, a \in 0..MaxSlot}

\* the aggregate MakeCreateUpdatesData emits, with the light client updates
\* fetched
MakeCreateUpdatesFromLightClientUpdatesInputs ==
    {Drain(handle_msg(a, "ok").msgs[1]) :
        a \in {m \in MakeCreateUpdatesInputs : ~handle_msg(m, "ok").panic}}

\* the aggregates of the Sequence MakeCreateUpdatesFromLightClientUpdatesData
\* emits, each with its three items fetched
CreateUpdateInputs ==
    UNION {{Drain(handle_msg(a, "ok").msgs[1].seq[i]) :
                i \in 1..Len(handle_msg(a, "ok").msgs[1].seq)} :
            a \in MakeCreateUpdatesFromLightClientUpdatesInputs}

\* the aggregate with the genesis the beacon chain answered
WithGenesis(agg, genesis_time) ==
    [agg EXCEPT !.data =
        [i \in 1..Len(agg.data) |->
            IF agg.data[i].data.data = "BeaconGenesis"
            THEN [agg.data[i] EXCEPT !.data.payload.genesis_time = genesis_time]
            ELSE agg.data[i]]]

EvmInputs ==
    MakeCreateUpdatesInputs \cup MakeCreateUpdatesFromLightClientUpdatesInputs
    \cup {WithGenesis(a, g) : a \in CreateUpdateInputs, g \in {GENESIS_TIME, GENESIS_TIME + 1}}
    \cup {Rotated(a) : a \in CreateUpdateInputs}

RECURSIVE DrainSteps(_)

\* the Aggregate after each of the steps that empty its queue
DrainSteps(agg) ==
    IF agg.tag # "Aggregate" \/ agg.queue = <<>> THEN {agg}
    ELSE LET new_msgs == handle_msg(agg, "ok") IN
         IF new_msgs.panic \/ Len(new_msgs.msgs) # 1 THEN {agg}
         ELSE {agg} \cup DrainSteps(new_msgs.msgs[1])

\* the aggregates with several fetches, at every step of their collection, and
\* an Aggregate whose first message comes back as a message that is no Data
AggregateStepInputs ==
    UNION {DrainSteps(a) :
            a \in {b \in AggregatesOn("union") \cup AggregatesOn("evm") :
                        Len(b.queue) > 1}}
    \cup {Aggregate(
            <<LcMsg(LcOf(c), "Wait", c,
                  WaitForBlock(Height(RevisionOf(c), MaxHeight + 1))),
              FetchTrustedClientStateOn(c)>>,
            <<>>,
            WaitForTrustedHeightReceiver(c)) : c \in Chains}

\* a Data message on its own, at the front of a Sequence, alone in a Sequence,
\* and at the front of the queue of an Aggregate that has collected one
DataInputs ==
    UNION {{TrustedClientStateOf(c),
            Sequence(<<TrustedClientStateOf(c), DeferUntil(MaxNow + 1)>>),
            Sequence(<<TrustedClientStateOf(c), DeferUntil(0),
                       FetchTrustedClientStateOn(c)>>),
            Aggregate(<<TrustedClientStateOf(c), FetchTrustedClientStateOn(c)>>,
                      <<TrustedClientStateOf(c)>>,
                      WaitForTrustedHeightReceiver(c)),
            Aggregate(<<TrustedClientStateOf(c)>>, <<>>,
                      WaitForTrustedHeightReceiver(c))} : c \in Chains}

\* a fetch at the head of a Sequence with a deferral behind it, alone in a
\* Sequence, and behind a deferral that is due
FetchSequences(chain_id) ==
    {Sequence(<<FetchTrustedClientStateOn(chain_id), DeferUntil(MaxNow + 1)>>),
     Sequence(<<FetchTrustedClientStateOn(chain_id)>>),
     Sequence(<<DeferUntil(0), FetchTrustedClientStateOn(chain_id)>>)}

\* the Sequences with a fetch, what handling them once returns, and the
\* Aggregates that have one of these as the only message of their queue
SequenceDataInputs ==
    LET seqs == UNION {FetchSequences(c) : c \in Chains}
        once == {handle_msg(s, "ok").msgs[1] : s \in seqs}
    IN  seqs \cup once
        \cup {Aggregate(<<s>>, <<>>, WaitForTrustedHeightReceiver(c)) :
                s \in {t \in seqs \cup once : t.tag = "Sequence"},
                c \in Chains}

\* messages under a timeout: a deferral that is never due, and a submission
TimeoutInputs ==
    {Timeout(t, m) :
        t \in 0..MaxTimestamp,
        m \in {DeferUntil(MaxNow + 1),
               LcMsg(LcOf("union"), "Msg", "union",
                  [msg |-> "UpdateClient", client_id |-> ClientIdOn("union"),
                   update_from |-> query_latest_height("evm"),
                   update_to |-> query_latest_height("evm")])}}

\* every variant, the sequences, the aggregates with their data, the waits, the
\* events and commands of the ingress, the header builder's aggregates and the
\* messages under a timeout
PureInputs ==
    VariantSamples \cup SequenceInputs \cup AggregateInputs \cup IngressMsgs
    \cup WaitInputs \cup EvmInputs \cup TimeoutInputs \cup AggregateStepInputs
    \cup DataInputs \cup BlockWaitInputs \cup ChannelWorkflowInputs
    \cup UpdatePipelineInputs \cup CrossRevisionInputs \cup MsgInputs
    \cup SequenceDataInputs

PureInit ==
    /\ QueueInit
    /\ ContractIdle
    /\ now \in 0..MaxNow
    /\ latest_height \in [Chains -> 1..MaxHeight]
    /\ latest_timestamp = [c \in Chains |-> IF now = 0 THEN 0 ELSE now - 1]
    /\ client_height \in {[c \in Chains |-> h] : h \in 1..MaxHeight}
    /\ pc = "apply"
    /\ ingress = 0
    /\ panicked = FALSE
    /\ lastMsg = NoMsg
    /\ lastResult = NoMsg
    /\ lastNow = 0
    /\ submitted = <<>>

\* handle_msg(msg, 0) is called once; lastFlow keeps what the adapter answers
PureApply(msg, outcome) ==
    /\ pc = "apply"
    /\ pc' = "applied"
    /\ lastMsg' = msg
    /\ lastResult' = handle_msg(msg, outcome)
    /\ lastNow' = now
    /\ lastFlow' = outcome
    /\ UNCHANGED contractVars
    /\ UNCHANGED <<queue, lock, poisoned, handling, halted, appended, delivered,
                   queueBefore, lastCaller, requeuedHead>>
    /\ UNCHANGED <<envVars, ingress, panicked, submitted>>

PureNext ==
    /\ pc = "apply"
    /\ \E msg \in PureInputs, outcome \in Outcomes : PureApply(msg, outcome)

SpecPure == PureInit /\ [][PureNext]_vars

\* C6: the reducer is total: handle_msg returns a list of successors for a
\* well-formed message of every variant, whenever the adapter does not fail
C6_ReducerTotal ==
    (lastMsg \in VariantSamples /\ lastFlow # "fatal") => ~lastResult.panic

RECURSIVE LeavesOf(_)

\* the non-Sequence messages of a tree of Sequences, from left to right
LeavesOf(msg) ==
    IF msg.tag # "Sequence" THEN <<msg>>
    ELSE IF msg.seq = <<>> THEN <<>>
    ELSE LeavesOf(Head(msg.seq)) \o LeavesOf(Sequence(Tail(msg.seq)))

\* C7: handling Sequence[Sequence[a, b], c] gives what handling
\* Sequence[a, b, c] gives; flatten_seq keeps the leaves in their order and
\* flattening twice is flattening once
C7_SequenceFlattening ==
    /\ \A a \in SequenceLeaves, b \in SequenceLeaves, c \in SequenceLeaves :
        lastMsg = NestedSequence(a, b, c)
            => lastResult = handle_msg(FlatSequence(a, b, c), lastFlow)
    /\ lastMsg.tag = "Sequence" =>
        /\ LeavesOf(flatten_seq(lastMsg)) = LeavesOf(lastMsg)
        /\ flatten_seq(flatten_seq(lastMsg)) = flatten_seq(lastMsg)
        /\ \A i \in 1..Len(lastResult.msgs) :
            /\ flatten_seq(lastResult.msgs[i]) = lastResult.msgs[i]
            /\ \A j \in 1..Len(LeavesOf(lastResult.msgs[i])) :
                LeavesOf(lastResult.msgs[i])[j].tag # "Sequence"

\* a nested Sequence whose head waited and came back as a Sequence of its own
C7_Witness ==
    /\ \E a \in SequenceLeaves, b \in SequenceLeaves, c \in SequenceLeaves :
        /\ lastMsg = NestedSequence(a, b, c)
        /\ a.tag = "Lc"
        /\ c.tag = "Sequence" /\ c.seq # <<>>
    /\ ~lastResult.panic
    /\ lastResult.msgs # <<>>
    /\ lastResult.msgs[1].tag = "Sequence"
    /\ Len(lastResult.msgs[1].seq) = 6

\* C10: an Aggregate none of whose fetches is outstanding and one of whose
\* data is identified by another chain than its receiver's aborts, and gives
\* no message
C10_WrongChainAborts ==
    (/\ lastMsg.tag = "Aggregate"
     /\ lastMsg.queue = <<>>
     /\ \E i \in 1..Len(lastMsg.data) :
            lastMsg.data[i].chain_id # lastMsg.receiver.chain_id)
        => lastResult.panic /\ lastResult.msgs = <<>>

(***************************************************************************)
(* Claims on the engine                                                    *)
(***************************************************************************)
RECURSIVE NoNestedSequence(_)

\* no Sequence of the message, at any depth, has a Sequence among its elements
NoNestedSequence(msg) ==
    CASE msg.tag = "Sequence" ->
            \A i \in 1..Len(msg.seq) :
                /\ msg.seq[i].tag # "Sequence"
                /\ NoNestedSequence(msg.seq[i])
      [] msg.tag = "Aggregate" ->
            \A i \in 1..Len(msg.queue) : NoNestedSequence(msg.queue[i])
      [] msg.tag \in {"Timeout", "Retry"} -> NoNestedSequence(msg.msg)
      [] OTHER -> TRUE

\* C8: no Sequence in the queue has a Sequence as a direct element
C8_NoNestedSequence ==
    \A i \in 1..Len(queue) : NoNestedSequence(queue[i])

\* a Sequence was handled whose head, a Wait, came back as a Sequence of a
\* DeferUntil and itself; what was re-emitted is in the queue, and flat
C8_Witness ==
    /\ lastMsg.tag = "Sequence"
    /\ lastMsg.seq # <<>>
    /\ lastMsg.seq[1].tag = "Lc"
    /\ lastMsg.seq[1].kind = "Wait"
    /\ ~lastResult.panic
    /\ lastResult.msgs # <<>>
    /\ lastResult.msgs[1].tag = "Sequence"
    /\ Len(lastResult.msgs[1].seq) = Len(lastMsg.seq) + 1
    /\ lastResult.msgs[1].seq[1].tag = "DeferUntil"
    /\ queue # <<>>
    /\ queue[Len(queue)] = lastResult.msgs[1]

RECURSIVE Contains(_, _)

\* the message is, or holds at some depth, the target
Contains(msg, target) ==
    \/ msg = target
    \/ /\ msg.tag = "Sequence"
       /\ \E i \in 1..Len(msg.seq) : Contains(msg.seq[i], target)
    \/ /\ msg.tag = "Aggregate"
       /\ \E i \in 1..Len(msg.queue) : Contains(msg.queue[i], target)
    \/ /\ msg.tag \in {"Timeout", "Retry"}
       /\ Contains(msg.msg, target)

Queued(target) == \E i \in 1..Len(queue) : Contains(queue[i], target)

\* what handling DeferUntil{timestamp} at the time t gives
DeferredAt(t, timestamp) ==
    IF t >= timestamp THEN Ok(<<>>)
    ELSE [panic |-> FALSE, msgs |-> <<DeferUntil(timestamp)>>, slept |-> 1,
          sent |-> <<>>]

\* C9: DeferUntil{t} handled at t' >= t gives no successor, at t' < t exactly
\* DeferUntil{t}; and with the clock advancing a queued DeferUntil{t} leaves
\* the queue, as long as the run loop lives
C9_DeferProgress ==
    /\ [](/\ \A t \in 1..MaxNow :
                handle_msg(DeferUntil(t), "ok") = DeferredAt(now, t)
          /\ (/\ lastMsg.tag = "Sequence"
              /\ lastMsg.seq # <<>>
              /\ lastMsg.seq[1].tag = "DeferUntil")
                => /\ ~lastResult.panic
                   /\ lastResult.slept =
                        DeferredAt(lastNow, lastMsg.seq[1].timestamp).slept
                   /\ lastResult.msgs =
                        <<flatten_seq(Sequence(
                            DeferredAt(lastNow, lastMsg.seq[1].timestamp).msgs
                                \o Tail(lastMsg.seq)))>>)
    /\ \A t \in 1..MaxTimestamp :
            Queued(DeferUntil(t)) ~> (~Queued(DeferUntil(t)) \/ panicked)

\* a Sequence headed by a due DeferUntil was handled after the DeferUntil had
\* been put off: the DeferUntil is gone from the queue
C9_Witness ==
    /\ lastMsg.tag = "Sequence"
    /\ lastMsg.seq # <<>>
    /\ lastMsg.seq[1].tag = "DeferUntil"
    /\ lastNow >= lastMsg.seq[1].timestamp
    /\ lastNow > 0
    /\ ~Queued(lastMsg.seq[1])
    /\ queue # <<>>
    /\ ~panicked

(***************************************************************************)
(* Workflows: what the handled message and its successors show             *)
(***************************************************************************)
RECURSIVE Unwrapped(_)

\* the message a Sequence hands to the handler next
Unwrapped(msg) ==
    IF msg.tag = "Sequence" /\ msg.seq # <<>> THEN Unwrapped(Head(msg.seq))
    ELSE msg

\* a message was handled and the handler returned successors
Handled == lastMsg.tag # "None" /\ ~lastResult.panic

\* the handled message is an Aggregate whose queue is empty: its receiver ran
Created(aggregate) ==
    /\ Handled
    /\ Unwrapped(lastMsg).tag = "Aggregate"
    /\ Unwrapped(lastMsg).queue = <<>>
    /\ Unwrapped(lastMsg).receiver.data.aggregate = aggregate

\* the handled message is an Aggregate that ran the Aggregate at its head
CreatedInside(outer, inner) ==
    /\ Handled
    /\ Unwrapped(lastMsg).tag = "Aggregate"
    /\ Unwrapped(lastMsg).receiver.data.aggregate = outer
    /\ Unwrapped(lastMsg).queue # <<>>
    /\ Head(Unwrapped(lastMsg).queue).tag = "Aggregate"
    /\ Head(Unwrapped(lastMsg).queue).queue = <<>>
    /\ Head(Unwrapped(lastMsg).queue).receiver.data.aggregate = inner

\* the first successor of the handled message
Successor == Unwrapped(lastResult.msgs[1])

SendPacketHandled ==
    /\ Handled
    /\ lastMsg.tag = "Lc"
    /\ lastMsg.kind = "Event"
    /\ lastMsg.data.type = "Ibc"
    /\ lastMsg.data.event.name = "SendPacket"

\* C11: for a SendPacket observed at height H, the WaitForTrustedHeight that
\* is emitted targets H+1, and the MsgRecvPacket produced carries a
\* commitment proof fetched at a height >= H+1; H is carried unchanged from
\* the event to the aggregate that builds the message.
C11_HeightMonotonicity ==
    /\ SendPacketHandled =>
            LET agg == lastResult.msgs[1].seq[2].receiver.data IN
            /\ agg.aggregate = "PacketUpdateClient"
            /\ agg.event_height = lastMsg.data.height
    /\ Created("PacketUpdateClient") =>
            /\ Successor.receiver.data.msg = "RecvPacket"
            /\ Successor.receiver.data.event_height
                    = Unwrapped(lastMsg).receiver.data.event_height
    /\ (/\ CreatedInside("AggregateMsgAfterUpdate", "WaitForTrustedHeight")
        /\ Unwrapped(lastMsg).receiver.data.msg = "RecvPacket") =>
            LET H == Unwrapped(lastMsg).receiver.data.event_height
                wait == Head(Successor.queue)
            IN  /\ wait.kind = "Wait"
                /\ wait.data.wait = "TrustedHeight"
                /\ wait.data.height = increment(H)
    /\ (/\ Created("AggregateMsgAfterUpdate")
        /\ Unwrapped(lastMsg).receiver.data.msg = "RecvPacket") =>
            /\ Successor.receiver.data.aggregate = "RecvPacket"
            /\ Successor.receiver.data.event_height
                    = Unwrapped(lastMsg).receiver.data.event_height
    /\ Created("RecvPacket") =>
            LET H == Unwrapped(lastMsg).receiver.data.event_height
                msg == Successor.data
            IN  /\ Successor.kind = "Msg"
                /\ msg.msg = "RecvPacket"
                /\ msg.proof_commitment.at.revision_number = H.revision_number
                /\ msg.proof_commitment.at.revision_height
                        >= H.revision_height + 1

\* a MsgRecvPacket was built from its commitment proof
C11_Witness == Created("RecvPacket")

\* the chain whose event the handled message is about
EventChain == Unwrapped(lastMsg).receiver.chain_id

ConnectionOpenInitHandled ==
    /\ Handled
    /\ lastMsg.tag = "Lc"
    /\ lastMsg.kind = "Event"
    /\ lastMsg.data.type = "Ibc"
    /\ lastMsg.data.event.name = "ConnectionOpenInit"

\* the ConnectionOpenInit handler emits one workflow that ends in the
\* aggregation of MsgConnectionOpenTry for that event
InitStartsTry ==
    ConnectionOpenInitHandled =>
        /\ Len(lastResult.msgs) = 1
        /\ lastResult.msgs[1].tag = "Sequence"
        /\ Len(lastResult.msgs[1].seq) = 2
        /\ LET agg == lastResult.msgs[1].seq[2].receiver IN
            /\ agg.chain_id = lastMsg.chain_id
            /\ agg.data.aggregate = "AggregateMsgAfterUpdate"
            /\ agg.data.msg = "ConnectionOpenTry"
            /\ agg.data.event = lastMsg.data.event
            /\ agg.data.event_height = lastMsg.data.height

\* the aggregation builds one message for the counterparty chain, whose
\* counterparty field names the client and the connection of the event
TryAddressedToCounterparty ==
    Created("ConnectionOpenTry") =>
        LET event == Unwrapped(lastMsg).receiver.data.event IN
        /\ Len(lastResult.msgs) = 1
        /\ Successor.kind = "Msg"
        /\ Successor.data.msg = "ConnectionOpenTry"
        /\ Successor.chain_id = CounterpartyChain(EventChain)
        /\ Successor.lc = LcOf(CounterpartyChain(EventChain))
        /\ Successor.data.counterparty =
                [client_id |-> event.client_id,
                 connection_id |-> event.connection_id,
                 prefix |-> "ibc"]

HandledTrustedClientState ==
    Pluck(Unwrapped(lastMsg).data, Unwrapped(lastMsg).receiver.lc,
          "TrustedClientState").data

TrustedByReceivingChain ==
    query_client_state(CounterpartyChain(EventChain),
        ClientIdOn(CounterpartyChain(EventChain)), Latest).height

TrustedHeightWaitHandled ==
    /\ Handled
    /\ lastMsg.tag = "Lc"
    /\ lastMsg.kind = "Wait"
    /\ lastMsg.data.wait = "TrustedHeight"

\* C15: a WaitForTrustedHeight resolves only when the client client_id on
\* the waiting chain trusts a height >= height; it then emits exactly one
\* message, a Fetch of TrustedClientState on counterparty_chain_id at
\* Specific(the trusted height) for counterparty_client_id; otherwise it
\* emits a deferral followed by itself unchanged.
C15_TrustedHeightWait ==
    TrustedHeightWaitHandled =>
        LET wait == lastMsg.data
            trusted == query_client_state(lastMsg.chain_id, wait.client_id,
                                          Latest).height
        IN  IF trusted.revision_height >= wait.height.revision_height
            THEN lastResult.msgs =
                    <<LcMsg(Counterparty(lastMsg.lc), "Fetch",
                            wait.counterparty_chain_id,
                            FetchTrustedClientState(Specific(trusted),
                                wait.counterparty_client_id))>>
            ELSE lastResult.msgs =
                    <<Sequence(<<DeferUntil(lastNow + 1), lastMsg>>)>>

\* a wait resolved while the client trusts more than the height waited for
C15_Witness ==
    /\ TrustedHeightWaitHandled
    /\ client_height[lastMsg.chain_id] > lastMsg.data.height.revision_height
    /\ lastResult.msgs[1].kind = "Fetch"

(***************************************************************************)
(* The deferred wait: Sequence[DeferUntil{t}, WaitForBlock{h}] is enqueued *)
(***************************************************************************)
\* the wait of the scenario, for a block the chain has not produced yet
DeferredWait(chain_id) ==
    LcMsg(LcOf(chain_id), "Wait", chain_id,
        WaitForBlock(Height(RevisionOf(chain_id), MaxHeight)))

\* the messages the operator enqueues through the message server
SequenceIngress ==
    {Sequence(<<DeferUntil(MaxTimestamp), DeferredWait(c)>>) :
        c \in Chains}

SeqNext ==
    \/ \E msg \in SequenceIngress : RunEnqueue(msg)
    \/ RunTimeout
    \/ RunProcessEmpty
    \/ \E outcome \in Outcomes : RunProcess(outcome)
    \/ \E c \in Chains : NewBlock(c)
    \/ \E c \in Chains : ClientAdvance(c)

\* the select! timer fires, and process follows every select!
SpecSeq ==
    /\ Init
    /\ [][SeqNext]_vars
    /\ WF_vars(RunTimeout)
    /\ WF_vars(RunProcessEmpty)
    /\ WF_vars(\E outcome \in Outcomes : RunProcess(outcome))

\* s ends with t
EndsWith(s, t) ==
    /\ Len(s) >= Len(t)
    /\ SubSeq(s, Len(s) - Len(t) + 1, Len(s)) = t

\* the chain height was polled: the message handed to the handler was a
\* WaitForBlock
Polled ==
    /\ Handled
    /\ Unwrapped(lastMsg).tag = "Lc"
    /\ Unwrapped(lastMsg).kind = "Wait"
    /\ Unwrapped(lastMsg).data.wait = "Block"

\* C16: within a Sequence the elements after the head stay behind whatever
\* the head leaves, in their order, so that m(i+1) is handled only when m(i)
\* and its successors are gone; for Sequence[DeferUntil{t}, WaitForBlock{h}]
\* the chain height is never polled before the clock reaches t, a poll ends
\* the wait only if the height has reached h and re-emits it behind a
\* deferral otherwise, and once the height has reached h the whole Sequence
\* ends and leaves nothing in the queue (for deferrals within the modelled
\* clock).
C16_SequenceOrdering ==
    /\ [](/\ (Handled /\ lastMsg.tag = "Sequence" /\ lastMsg.seq # <<>>) =>
                /\ Len(lastResult.msgs) = 1
                /\ EndsWith(LeavesOf(lastResult.msgs[1]),
                            LeavesOf(Sequence(Tail(lastMsg.seq))))
          /\ Polled => lastNow >= MaxTimestamp
          /\ (Polled /\ lastMsg.tag = "Lc") =>
                LET c == lastMsg.chain_id
                    h == lastMsg.data.height.revision_height
                IN  /\ lastResult.msgs = <<>> => latest_height[c] >= h
                    /\ latest_height[c] < h =>
                            lastResult.msgs =
                                <<Sequence(<<DeferUntil(lastNow + 1),
                                             lastMsg>>)>>)
    /\ \A c \in Chains :
            (/\ Queued(DeferredWait(c))
             /\ latest_height[c] >= MaxHeight
             /\ ~Queued(DeferUntil(MaxNow + 1)))
                ~> ~Queued(DeferredWait(c))

\* the height was polled after the deferral, the block was there, and the
\* Sequence is gone
C16_Witness ==
    /\ Polled
    /\ ingress = 1
    /\ lastResult.msgs = <<>>
    /\ queue = <<>>

(***************************************************************************)
(* The EVM header builder                                                  *)
(***************************************************************************)
\* the sync committee period a slot lies in
PeriodOf(slot) == slot \div PERIOD

\* the handled message is an aggregate of the EVM adapter whose receiver ran
EvmCreated(evm) ==
    /\ Created("LightClientSpecific")
    /\ lastMsg.receiver.data.evm = evm

\* the period the client trusts when the headers are asked for
TrustedPeriodOfReq ==
    PeriodOf(lastMsg.receiver.data.req.update_from.revision_height)

\* the light client updates are in, the trusted slot lies two periods before the
\* finality update, and the height to update to lies in the finality update's
\* period
SpanningUpdate ==
    /\ EvmCreated("MakeCreateUpdatesFromLightClientUpdates")
    /\ PeriodOf(lastMsg.receiver.data.finality_update.attested_slot)
            = TrustedPeriodOfReq + 2
    /\ PeriodOf(lastMsg.receiver.data.req.update_to.revision_height)
            = TrustedPeriodOfReq + 2

\* the Sequence the handled aggregate emitted
Emitted == lastResult.msgs[1].seq

\* m builds the update that crosses into a period
BoundaryUpdate(m, period) ==
    /\ m.tag = "Aggregate"
    /\ m.receiver.data.evm = "CreateUpdate"
    /\ m.receiver.data.is_next
    /\ PeriodOf(m.receiver.data.light_client_update.attested_slot) = period

\* m builds the update to the beacon chain's finality update
FinalityUpdateOf(m) ==
    /\ m.tag = "Aggregate"
    /\ m.receiver.data.evm = "CreateUpdate"
    /\ ~m.receiver.data.is_next
    /\ m.receiver.data.light_client_update.attested_slot
            = lastMsg.receiver.data.finality_update.attested_slot
    /\ m.receiver.data.light_client_update.signature_slot
            = lastMsg.receiver.data.finality_update.signature_slot

\* what CreateUpdate emits: the wait for the signature slot's time on the
\* counterparty chain, and right after it the MsgUpdateClient
WaitThenUpdate ==
    LET agg == lastMsg.receiver.data
        genesis == Pluck(lastMsg.data, lastMsg.receiver.lc, "BeaconGenesis")
    IN  /\ Len(lastResult.msgs) = 1
        /\ lastResult.msgs[1].tag = "Sequence"
        /\ Len(Emitted) = 2
        /\ Emitted[1].kind = "Wait"
        /\ Emitted[1].chain_id = agg.req.counterparty_chain_id
        /\ Emitted[1].data =
                WaitForTimestamp(
                    genesis.data.payload.genesis_time
                    + agg.light_client_update.signature_slot * SECONDS_PER_SLOT)
        /\ Emitted[2].kind = "Msg"
        /\ Emitted[2].chain_id = agg.req.counterparty_chain_id
        /\ Emitted[2].data.msg = "UpdateClient"
        /\ Emitted[2].data.client_id = agg.req.counterparty_client_id
        /\ Emitted[2].data.client_message.consensus_update = agg.light_client_update

\* MakeCreateUpdates asks the beacon chain for the updates of the periods after
\* the trusted one, up to the finality update's
AsksPeriodsAfterTrusted ==
    LET target == PeriodOf(Pluck(lastMsg.data, lastMsg.receiver.lc,
                                 "FinalityUpdate").data.payload.attested_slot)
    IN  /\ Len(lastResult.msgs) = 1
        /\ lastResult.msgs[1].tag = "Aggregate"
        /\ lastResult.msgs[1].queue =
                <<EvmFetch(lastMsg.receiver.lc, lastMsg.receiver.chain_id,
                    [evm |-> "FetchLightClientUpdates",
                     trusted_period |-> TrustedPeriodOfReq,
                     target_period |-> target])>>

\* C17 as stated: an update from a slot of period p to a slot of period p + 2
\* emits the two boundary updates of periods p + 1 and p + 2 and then the finality
\* update, and every MsgUpdateClient comes right after the WaitForTimestamp of its
\* signature slot on the counterparty chain
C17_Original ==
    /\ SpanningUpdate =>
        /\ Len(Emitted) = 3
        /\ BoundaryUpdate(Emitted[1], TrustedPeriodOfReq + 1)
        /\ BoundaryUpdate(Emitted[2], TrustedPeriodOfReq + 2)
        /\ FinalityUpdateOf(Emitted[3])
    /\ EvmCreated("CreateUpdate") => WaitThenUpdate

\* C17: an update from a slot of period p, with the finality update and the height
\* to update to in period p + 2, emits the two boundary updates of periods p + 1
\* and p + 2 first; the finality update follows them unless the last boundary
\* update already attests a slot at or beyond the height to update to; every
\* MsgUpdateClient comes right after the WaitForTimestamp of its signature slot
\* (genesis_time + signature_slot * SECONDS_PER_SLOT) on the counterparty chain
C17_EvmHeaderGeneration ==
    /\ EvmCreated("MakeCreateUpdates") => AsksPeriodsAfterTrusted
    /\ SpanningUpdate =>
        /\ Len(Emitted) >= 2
        /\ BoundaryUpdate(Emitted[1], TrustedPeriodOfReq + 1)
        /\ BoundaryUpdate(Emitted[2], TrustedPeriodOfReq + 2)
        /\ IF Emitted[2].receiver.data.light_client_update.attested_slot
                >= lastMsg.receiver.data.req.update_to.revision_height
           THEN Len(Emitted) = 2
           ELSE Len(Emitted) = 3 /\ FinalityUpdateOf(Emitted[3])
    /\ EvmCreated("CreateUpdate") => WaitThenUpdate

\* a spanning update was built: two boundary updates, then the finality update
C17_Witness ==
    /\ SpanningUpdate
    /\ Len(Emitted) = 3
    /\ FinalityUpdateOf(Emitted[3])

(***************************************************************************)
(* The order of the collected data                                         *)
(***************************************************************************)
\* no two items are of the same type
DistinctItems(data) ==
    \A i, j \in 1..Len(data) :
        i # j => ~(data[i].lc = data[j].lc /\ data[i].data.data = data[j].data.data)

\* the same items, collected in every order
Reorderings(data) ==
    {[i \in 1..Len(data) |-> data[f[i]]] : f \in Permutations(1..Len(data))}

UpdateAdminMsgs == {[execute |-> "UpdateAdmin", admin |-> a] : a \in Callers}

ExecuteMsgs == TransferMsgs \cup UpdateAdminMsgs \cup ReceivePhase1Msgs

\* MessageInfo
MessageInfos == {[sender |-> c, funds |-> f] : c \in Callers, f \in FundsSamples}

\* ADMIN.execute_update_admin
execute_update_admin(info, admin) ==
    IF info.sender = ADMIN
    THEN Response(<<>>, <<[event |-> "update_admin", admin |-> admin]>>)
    ELSE ContractErr([error |-> "NotAdmin"])

execute(env, info, msg) ==
    CASE msg.execute = "Transfer" -> execute_transfer(env, info, msg)
      [] msg.execute = "UpdateAdmin" -> execute_update_admin(info, msg.admin)
      [] msg.execute = "ReceivePhase1" -> execute_receive_phase1(env, info, msg)

\* a call of the entry point execute; a call that fails changes no storage;
\* lastExecute keeps the CHANNEL_INFO the call ran against
Execute(env, info, msg) ==
    /\ lastExecute' = [execute |-> msg.execute, env |-> env, info |-> info,
                       msg |-> msg, storage |-> CHANNEL_INFO]
    /\ lastResponse' = execute(env, info, msg)
    /\ ADMIN' = IF msg.execute = "UpdateAdmin" /\ execute(env, info, msg).ok
                THEN msg.admin ELSE ADMIN
    /\ UNCHANGED <<CHANNEL_INFO, CONFIG>>
    /\ UNCHANGED <<queueVars, engineVars>>

\* the channel handshake saves the ChannelInfo of a channel that opens
SaveChannelInfo(channel_id, protocol_version) ==
    /\ CHANNEL_INFO[channel_id] = NoChannelInfo
    /\ CHANNEL_INFO' =
            [CHANNEL_INFO EXCEPT ![channel_id] = [protocol_version |-> protocol_version]]
    /\ UNCHANGED <<CONFIG, ADMIN, lastExecute, lastResponse>>
    /\ UNCHANGED <<queueVars, engineVars>>

\* IbcReceiveResponse::new(): no acknowledgement is set yet
NoAck == [ack |-> "unset"]

\* ack_success().try_into(), ack_failure(error).try_into(): the ICS20
\* acknowledgement is JSON {result} or {error}, the UCS01 one is a byte, 1 or 0
EncodeAck(protocol_version, success, error) ==
    IF protocol_version = ICS20_VERSION
    THEN [ack |-> "json", success |-> success, error |-> error]
    ELSE [ack |-> "byte", success |-> success, error |-> ""]

IbcReceiveResponse(acknowledgement, events, messages) ==
    [ok |-> TRUE, acknowledgement |-> acknowledgement, events |-> events,
     messages |-> messages]

\* mutant of receive_error: the failure is reported in the event only
receive_error_Unset(protocol_version, error) ==
    IbcReceiveResponse(NoAck,
        <<[event |-> "fungible_token_packet", module |-> "transfer",
           success |-> "false", error |-> error]>>,
        <<>>)

\* TransferProtocol::receive_error
receive_error(protocol_version, error) ==
    IbcReceiveResponse(EncodeAck(protocol_version, FALSE, error),
        <<[event |-> "fungible_token_packet", module |-> "transfer",
           success |-> "false", error |-> error]>>,
        <<>>)

\* what make_receive_phase1_execute may answer
BuildOutcomes == {"built", "failed"}

\* make_receive_phase1_execute: the contract's own ExecuteMsg::ReceivePhase1
make_receive_phase1_execute(channel_id, raw_packet) ==
    [wasm |-> "Execute", contract_addr |-> ContractAddr,
     msg |-> [execute |-> "ReceivePhase1", channel |-> channel_id,
              raw_packet |-> raw_packet],
     funds |-> <<>>]

\* SubMsg::reply_on_error(msg, Self::RECEIVE_REPLY_ID)
reply_on_error(msg, protocol_version) ==
    [msg |-> msg, reply_on |-> "Error", id |-> protocol_version]

\* TransferProtocol::receive_phase0
receive_phase0(protocol_version, channel_id, raw_packet, build) ==
    IF ~PacketDecodes(protocol_version, raw_packet)
    THEN receive_error(protocol_version, "EncodingError")
    ELSE IF build # "built"
    THEN receive_error(protocol_version, "StdError")
    ELSE
    LET packet == raw_packet.packet
        execute_msg ==
            reply_on_error(make_receive_phase1_execute(channel_id, raw_packet),
                           protocol_version)
    IN  IbcReceiveResponse(EncodeAck(protocol_version, TRUE, ""),
            <<[event |-> "fungible_token_packet", module |-> "transfer",
               sender |-> packet.sender, receiver |-> packet.receiver,
               memo |-> packet.extension, success |-> "true",
               tokens |-> packet.tokens]>>,
            <<execute_msg>>)

\* a packet arrives on an open channel: the entry point hands it to the
\* receive_phase0 of the channel's protocol
IbcPacketReceive(channel_id, raw_packet, build) ==
    /\ CHANNEL_INFO[channel_id].protocol_version \in {ICS20_VERSION, UCS01_VERSION}
    /\ lastExecute' = [execute |-> "IbcPacketReceive", channel |-> channel_id,
                       raw_packet |-> raw_packet, build |-> build,
                       storage |-> CHANNEL_INFO]
    /\ lastResponse' = receive_phase0(CHANNEL_INFO[channel_id].protocol_version,
                                      channel_id, raw_packet, build)
    /\ UNCHANGED <<CHANNEL_INFO, CONFIG, ADMIN>>
    /\ UNCHANGED <<queueVars, engineVars>>

ContractNext ==
    \/ \E c \in ChannelIds, v \in StoredVersions : SaveChannelInfo(c, v)
    \/ \E t \in BlockTimes, info \in MessageInfos, msg \in ExecuteMsgs :
            Execute([time |-> t], info, msg)
    \/ \E c \in ChannelIds, r \in RawPackets, b \in BuildOutcomes :
            IbcPacketReceive(c, r, b)

SpecContract == Init /\ [][ContractNext]_vars

\* the last call named a channel whose stored ChannelInfo it could load
OnStoredChannel ==
    /\ lastExecute.execute \in {"Transfer", "ReceivePhase1"}
    /\ lastExecute.storage[lastExecute.msg.channel] # NoChannelInfo

\* the protocol version stored for the channel of the last call
StoredVersion == lastExecute.storage[lastExecute.msg.channel].protocol_version

\* the last call was made on a channel whose version is neither ICS20 nor UCS01
OnUnknownProtocol ==
    /\ OnStoredChannel
    /\ StoredVersion \notin {ICS20_VERSION, UCS01_VERSION}

\* execute_transfer took the funds of the last call: they decode and are not empty
FundsAccepted ==
    /\ CoinsDecode(lastExecute.info.funds)
    /\ lastExecute.info.funds # <<>>

\* C19 as stated: on a channel whose stored version is neither ICS20 nor UCS01,
\* Transfer and ReceivePhase1 return UnknownProtocol{channel_id, protocol_version}
\* and no message
C19_Original ==
    OnUnknownProtocol =>
        lastResponse =
            ContractErr(UnknownProtocol(lastExecute.msg.channel, StoredVersion))

\* C19: on a channel whose stored version is neither ICS20 nor UCS01, Transfer and
\* ReceivePhase1 return an error and neither a packet nor a token message; the
\* error is UnknownProtocol{channel_id, protocol_version}, except that Transfer
\* rejects funds that do not decode or are empty before it loads the channel
C19_UnknownProtocol ==
    OnUnknownProtocol =>
        /\ ~lastResponse.ok
        /\ lastResponse.messages = <<>>
        /\ (lastExecute.execute = "ReceivePhase1" \/ FundsAccepted) =>
                lastResponse.error =
                    UnknownProtocol(lastExecute.msg.channel, StoredVersion)
        /\ (lastExecute.execute = "Transfer" /\ ~FundsAccepted) =>
                lastResponse.error.error \in
                    {"NoFunds", "Couldn't decode funds to Coins"}

\* a Transfer with funds on a channel of an unknown version was refused
C19_Witness ==
    /\ OnUnknownProtocol
    /\ lastExecute.execute = "Transfer"
    /\ FundsAccepted
    /\ lastResponse.error.error = "UnknownProtocol"

\* the last call was a ReceivePhase1 that reached TransferProtocol::receive_phase1
ReceivePhase1Called ==
    /\ OnStoredChannel
    /\ lastExecute.execute = "ReceivePhase1"
    /\ StoredVersion \in {ICS20_VERSION, UCS01_VERSION}

\* C20 as stated: receive_phase1 transfers to the receiver only when the caller is
\* the contract; for any other caller it returns Unauthorized and no message
C20_Original ==
    ReceivePhase1Called =>
        /\ lastResponse.ok => lastExecute.info.sender = ContractAddr
        /\ lastExecute.info.sender # ContractAddr =>
                lastResponse = ContractErr([error |-> "Unauthorized"])

\* C20: receive_phase1 transfers to the receiver only when the caller is the
\* contract; for any other caller it returns an error and no message, and the
\* error is Unauthorized whenever the raw packet decodes (the packet is decoded
\* before the caller is looked at)
C20_SelfCallerOnly ==
    ReceivePhase1Called =>
        /\ lastResponse.ok => lastExecute.info.sender = ContractAddr
        /\ lastExecute.info.sender # ContractAddr =>
            /\ ~lastResponse.ok
            /\ lastResponse.messages = <<>>
            /\ lastResponse.error =
                    IF PacketDecodes(StoredVersion, lastExecute.msg.raw_packet)
                    THEN [error |-> "Unauthorized"]
                    ELSE [error |-> "EncodingError"]

\* another account called ReceivePhase1 with a packet that decodes, and was refused
C20_Witness ==
    /\ ReceivePhase1Called
    /\ lastExecute.info.sender # ContractAddr
    /\ PacketDecodes(StoredVersion, lastExecute.msg.raw_packet)
    /\ lastResponse = ContractErr([error |-> "Unauthorized"])

\* the last call was a packet receive
PacketReceived == lastExecute.execute = "IbcPacketReceive"

\* the protocol version of the channel the packet arrived on
ReceivedVersion == lastExecute.storage[lastExecute.channel].protocol_version

\* the packet decodes and the phase-1 message was built
Phase1Built ==
    /\ PacketDecodes(ReceivedVersion, lastExecute.raw_packet)
    /\ lastExecute.build = "built"

\* C21: receive_phase0 answers with the success acknowledgement and one
\* reply-on-error sub-message that calls ReceivePhase1 with the raw packet whenever
\* the packet decodes and the phase-1 message is built; if either fails it answers
\* with a failure acknowledgement and no sub-message; the acknowledgement is never
\* left unset
C21_ReceivePhase0Ack ==
    PacketReceived =>
        /\ lastResponse.acknowledgement # NoAck
        /\ Phase1Built =>
            /\ lastResponse.acknowledgement = EncodeAck(ReceivedVersion, TRUE, "")
            /\ Len(lastResponse.messages) = 1
            /\ lastResponse.messages[1].reply_on = "Error"
            /\ lastResponse.messages[1].msg.msg.execute = "ReceivePhase1"
            /\ lastResponse.messages[1].msg.msg.raw_packet = lastExecute.raw_packet
        /\ ~Phase1Built =>
            /\ ~lastResponse.acknowledgement.success
            /\ lastResponse.messages = <<>>

\* a packet decoded but its phase-1 message could not be built: the answer is
\* the failure acknowledgement
C21_Witness ==
    /\ PacketReceived
    /\ PacketDecodes(ReceivedVersion, lastExecute.raw_packet)
    /\ lastExecute.build = "failed"
    /\ lastResponse.acknowledgement = EncodeAck(ReceivedVersion, FALSE, "StdError")

(***************************************************************************)
(* The reducer's wrappers                                                  *)
(***************************************************************************)
\* nothing came back and nothing was done: no successor, no sleep, no submission
Dropped == lastResult = Ok(<<>>)

\* C22: handling Timeout{t, inner} at a clock after t drops the message: no
\* successors, and inner is not handled; at a clock up to and including t inner
\* is handled and what it returns is returned
C22_Timeout ==
    lastMsg.tag = "Timeout" =>
        /\ lastNow > lastMsg.timeout_timestamp => Dropped
        /\ lastNow <= lastMsg.timeout_timestamp =>
                lastResult = handle_msg(lastMsg.msg, lastFlow)

\* a deferral under a timeout was handled at the very second of the timeout: it
\* slept and came back
C22_Witness ==
    /\ lastMsg.tag = "Timeout"
    /\ lastNow = lastMsg.timeout_timestamp
    /\ lastMsg.msg.tag = "DeferUntil"
    /\ lastResult.msgs = <<lastMsg.msg>>
    /\ lastResult.slept = 1

\* what handling the first element of the handled Sequence returns
HeadResult == handle_msg(Head(lastMsg.seq), lastFlow)

\* C23: handling a Sequence handles its first element and nothing else, puts
\* what that returns, in its order, in front of the remaining elements and
\* re-emits the whole as one flattened message; an empty Sequence returns no
\* successors
C23_SequenceStep ==
    lastMsg.tag = "Sequence" =>
        /\ lastMsg.seq = <<>> => Dropped
        /\ (lastMsg.seq # <<>> /\ ~HeadResult.panic) =>
            /\ Len(lastResult.msgs) = 1
            /\ LeavesOf(lastResult.msgs[1]) =
                    LeavesOf(Sequence(HeadResult.msgs))
                    \o LeavesOf(Sequence(Tail(lastMsg.seq)))
            /\ flatten_seq(lastResult.msgs[1]) = lastResult.msgs[1]
            /\ lastResult.slept = HeadResult.slept
            /\ lastResult.sent = HeadResult.sent

\* a Sequence headed by a wait for a block that is not there was handled: the
\* deferral and the wait stand in front of the two elements that remained
C23_Witness ==
    /\ lastMsg.tag = "Sequence"
    /\ Len(lastMsg.seq) = 3
    /\ lastMsg.seq[1].tag = "Lc"
    /\ lastMsg.seq[2].tag = "DeferUntil"
    /\ lastMsg.seq[3].tag = "DeferUntil"
    /\ ~lastResult.panic
    /\ lastResult.msgs =
            <<Sequence(<<DeferUntil(lastNow + 1), lastMsg.seq[1],
                         lastMsg.seq[2], lastMsg.seq[3]>>)>>

\* what handling the first message of the handled Aggregate's queue returns
PoppedResult == handle_msg(Head(lastMsg.queue), lastFlow)

\* the messages of msgs that are Data, and those that are not, in their order
DataOf(msgs) == SelectSeq(msgs, LAMBDA m : m.tag = "Lc" /\ m.kind = "Data")

OthersOf(msgs) == SelectSeq(msgs, LAMBDA m : ~(m.tag = "Lc" /\ m.kind = "Data"))

\* C24: an Aggregate whose queue is not empty pops the first message and handles
\* it; the successors that are Data go to the back of data, all others to the back
\* of the queue, and the Aggregate is re-emitted with the same receiver, which is
\* not run; the receiver is run against data only when the queue is empty
C24_AggregateStep ==
    lastMsg.tag = "Aggregate" =>
        /\ (lastMsg.queue # <<>> /\ ~PoppedResult.panic) =>
            /\ Len(lastResult.msgs) = 1
            /\ lastResult.msgs[1].tag = "Aggregate"
            /\ lastResult.msgs[1].receiver = lastMsg.receiver
            /\ lastResult.msgs[1].data = lastMsg.data \o DataOf(PoppedResult.msgs)
            /\ lastResult.msgs[1].queue =
                    Tail(lastMsg.queue) \o OthersOf(PoppedResult.msgs)
            /\ lastResult.sent = PoppedResult.sent
        /\ lastMsg.queue = <<>> =>
                lastResult = do_create(lastMsg.receiver, lastMsg.data)

\* an Aggregate popped a wait that came back as a Sequence: the Sequence stands
\* behind the fetch that was second in the queue, and no data was collected
C24_Witness ==
    /\ lastMsg.tag = "Aggregate"
    /\ Len(lastMsg.queue) = 2
    /\ lastMsg.queue[1].tag = "Lc"
    /\ lastMsg.queue[1].kind = "Wait"
    /\ ~lastResult.panic
    /\ Len(lastResult.msgs) = 1
    /\ lastResult.msgs[1].tag = "Aggregate"
    /\ Len(lastResult.msgs[1].queue) = 2
    /\ lastResult.msgs[1].queue[1] = lastMsg.queue[2]
    /\ lastResult.msgs[1].queue[2].tag = "Sequence"
    /\ lastResult.msgs[1].data = <<>>

\* the message is a Data message of a light client
IsData(m) == m.tag = "Lc" /\ m.kind = "Data"

\* a result that is no panic, slept for nothing and submitted nothing
Quiet(result) == ~result.panic /\ result.slept = 0 /\ result.sent = <<>>

\* C25: a Data message that is handled directly is dropped: handled on its own
\* it returns no successors; popped from a Sequence it leaves the rest of the
\* Sequence; popped from an Aggregate's queue it leaves the rest of the queue and
\* the data as they were; in no case does the handling panic
C25_DataDropped ==
    /\ IsData(lastMsg) => lastResult = Ok(<<>>)
    /\ (lastMsg.tag = "Sequence" /\ lastMsg.seq # <<>> /\ IsData(Head(lastMsg.seq))) =>
            /\ Quiet(lastResult)
            /\ lastResult.msgs = <<flatten_seq(Sequence(Tail(lastMsg.seq)))>>
    /\ (lastMsg.tag = "Aggregate" /\ lastMsg.queue # <<>>
            /\ IsData(Head(lastMsg.queue))) =>
            /\ Quiet(lastResult)
            /\ lastResult.msgs = <<Aggregate(Tail(lastMsg.queue), lastMsg.data,
                                             lastMsg.receiver)>>

\* a Data message was popped from the queue of an Aggregate that had collected
\* one item, and the Aggregate came back with that one item only
C25_Witness ==
    /\ lastMsg.tag = "Aggregate"
    /\ Len(lastMsg.queue) = 2
    /\ IsData(Head(lastMsg.queue))
    /\ Len(lastMsg.data) = 1
    /\ Len(lastResult.msgs) = 1
    /\ lastResult.msgs[1].data = lastMsg.data

\* the handled message is a submission to a chain the engine has an adapter for
MsgSubmitted ==
    /\ lastMsg.tag = "Lc"
    /\ lastMsg.kind = "Msg"
    /\ get_lc_ok(lastMsg.lc, lastMsg.chain_id)

\* C26: a Msg is submitted to the adapter of its chain and, whether the
\* transaction was accepted or reverted, handling it returns no successors and
\* does not panic: the submission is recorded for the Msg's chain when accepted
\* and nothing is recorded when reverted
C26_MsgNoSuccessors ==
    (MsgSubmitted /\ lastFlow \in {"ok", "revert"}) =>
        /\ ~lastResult.panic
        /\ lastResult.msgs = <<>>
        /\ lastResult.slept = 0
        /\ lastFlow = "ok" =>
                lastResult.sent =
                    <<[chain_id |-> lastMsg.chain_id, msg |-> lastMsg.data]>>
        /\ lastFlow = "revert" => lastResult.sent = <<>>

\* a submission was reverted and handling it returned nothing
C26_Witness ==
    /\ MsgSubmitted
    /\ lastFlow = "revert"
    /\ lastResult = Ok(<<>>)

\* the handled message is a wait of the given kind on a chain the engine has
\* an adapter for
WaitHandled(kind) ==
    /\ lastMsg.tag = "Lc"
    /\ lastMsg.kind = "Wait"
    /\ lastMsg.data.wait = kind
    /\ get_lc_ok(lastMsg.lc, lastMsg.chain_id)

\* the one successor of a wait that is not over: a deferral of one second
\* followed by the same wait
WaitsAgain == lastResult = Ok(<<Sequence(<<DeferUntil(lastNow + 1), lastMsg>>)>>)

\* C27: a WaitForBlock(h) in the chain's revision returns no successors when the
\* chain's latest height is >= h and otherwise exactly
\* Sequence[DeferUntil(now+1), WaitForBlock(h)] with the same h and chain; a
\* WaitForTimestamp does the same against the chain's latest timestamp
C27_WaitForBlock ==
    /\ (WaitHandled("Block")
            /\ lastMsg.data.height.revision_number = RevisionOf(lastMsg.chain_id)) =>
        IF latest_height[lastMsg.chain_id] >= lastMsg.data.height.revision_height
        THEN lastResult = Ok(<<>>)
        ELSE WaitsAgain
    /\ WaitHandled("Timestamp") =>
        IF latest_timestamp[lastMsg.chain_id] >= lastMsg.data.timestamp
        THEN lastResult = Ok(<<>>)
        ELSE WaitsAgain

\* a wait for the very height the chain is at returned nothing
C27_Witness ==
    /\ WaitHandled("Block")
    /\ lastMsg.data.height = query_latest_height(lastMsg.chain_id)
    /\ lastResult = Ok(<<>>)

(***************************************************************************)
(* Events                                                                  *)
(***************************************************************************)
\* the events of a chain that the spec lists as logged only
LogOnlyChainEvents(chain_id) ==
    {[name |-> n, client_id |-> ClientIdOn(chain_id)] :
        n \in {"CreateClient", "UpdateClient"}}
    \cup {ConnectionEvent("ConnectionOpenConfirm", chain_id),
          ChannelEvent("ChannelOpenConfirm", chain_id)}
    \cup {PacketEvent(n, chain_id) :
        n \in {"RecvPacket", "AcknowledgePacket", "TimeoutPacket",
               "WriteAcknowledgement"}}

\* the run loop takes the event from the stream of the chain
Observe(chain_id, event) ==
    \/ RunEnqueue(IbcEvent(chain_id, event))
    \/ RunIngressTodo(chain_id, event)

\* the handled message is an event that the spec lists as logged only
LogOnlyHandled ==
    /\ Handled
    /\ lastMsg.tag = "Lc"
    /\ lastMsg.kind = "Event"
    /\ lastMsg.data.type = "Ibc"
    /\ lastMsg.data.event.name \in LogOnlyEvents

\* C28: observing CreateClient, ConnectionOpenConfirm, ChannelOpenConfirm,
\* AcknowledgePacket, TimeoutPacket, WriteAcknowledgement, UpdateClient or
\* RecvPacket on a chain of either family leaves the engine running, and handling
\* the event returns no successors
C28_LogOnlyEvents ==
    /\ [][\A c \in Chains : \A e \in LogOnlyChainEvents(c) :
            Observe(c, e) => ~panicked']_vars
    /\ [](LogOnlyHandled => lastResult = Ok(<<>>))

\* the handled message is the event of the given name, observed on a chain
EventHandled(name) ==
    /\ lastMsg.tag = "Lc"
    /\ lastMsg.kind = "Event"
    /\ lastMsg.data.type = "Ibc"
    /\ lastMsg.data.event.name = name

\* the height one block after h, in the same revision
OneAfter(h) ==
    [revision_number |-> h.revision_number,
     revision_height |-> h.revision_height + 1]

\* the step of the connection handshake that answers an event
NextConnectionStep ==
    [ConnectionOpenInit |-> "ConnectionOpenTry",
     ConnectionOpenTry |-> "ConnectionOpenAck",
     ConnectionOpenAck |-> "ConnectionOpenConfirm"]

\* C29: a ConnectionOpenInit, ConnectionOpenTry or ConnectionOpenAck observed at
\* height H emits exactly one message, Sequence[WaitForBlock(H+1), Aggregate]; the
\* Aggregate's queue holds one client-update aggregate with update_to = H+1 for
\* the event's client_id and counterparty_client_id, and its receiver is
\* AggregateMsgAfterUpdate for the next step of the handshake with event_height = H
C29_ConnectionEvent ==
    \A name \in DOMAIN NextConnectionStep :
        EventHandled(name) =>
            LET H == lastMsg.data.height
                event == lastMsg.data.event
            IN  /\ ~lastResult.panic
                /\ Len(lastResult.msgs) = 1
                /\ lastResult.msgs[1].tag = "Sequence"
                /\ Len(lastResult.msgs[1].seq) = 2
                /\ LET wait == lastResult.msgs[1].seq[1]
                       agg == lastResult.msgs[1].seq[2]
                   IN  /\ wait = LcMsg(lastMsg.lc, "Wait", lastMsg.chain_id,
                                       WaitForBlock(OneAfter(H)))
                       /\ agg.tag = "Aggregate"
                       /\ agg.data = <<>>
                       /\ Len(agg.queue) = 1
                       /\ agg.queue[1].tag = "Aggregate"
                       /\ agg.queue[1].receiver.chain_id = lastMsg.chain_id
                       /\ agg.queue[1].receiver.data =
                            [aggregate |-> "UpdateClient",
                             update_to |-> OneAfter(H),
                             client_id |-> event.client_id,
                             counterparty_client_id |->
                                event.counterparty_client_id]
                       /\ agg.receiver.chain_id = lastMsg.chain_id
                       /\ agg.receiver.data =
                            [aggregate |-> "AggregateMsgAfterUpdate",
                             msg |-> NextConnectionStep[name],
                             event_height |-> H,
                             event |-> event]

\* a ConnectionOpenAck observed at height 2 asked for an update to height 3
C29_Witness ==
    /\ EventHandled("ConnectionOpenAck")
    /\ lastMsg.data.height.revision_height = 2
    /\ ~lastResult.panic
    /\ lastResult.msgs[1].seq[2].queue[1].receiver.data.update_to.revision_height = 3
    /\ lastResult.msgs[1].seq[2].receiver.data.msg = "ConnectionOpenConfirm"

\* the handled message is the Aggregate of a channel handshake event with the
\* connection end collected: ChannelHandshakeUpdateClient ran
ChannelUpdateRequested ==
    /\ lastMsg.tag = "Aggregate"
    /\ lastMsg.queue = <<>>
    /\ lastMsg.receiver.data.aggregate = "ChannelHandshakeUpdateClient"
    /\ lastMsg.receiver.data.update_to = OneAfter(lastMsg.receiver.data.event_height)
    /\ ~lastResult.panic

\* C30: for a ChannelOpenInit, ChannelOpenTry or ChannelOpenAck observed at
\* height H the channel end is fetched at H+1, and the client update that the
\* workflow requests targets update_to = H+1, as for a connection handshake event
C30_ChannelEvent ==
    /\ \A name \in {"ChannelOpenInit", "ChannelOpenTry", "ChannelOpenAck"} :
        EventHandled(name) =>
            LET H == lastMsg.data.height
                agg == lastResult.msgs[1].seq[2]
            IN  /\ agg.queue[1].queue[1].data.fetch = "ChannelEnd"
                /\ agg.queue[1].queue[1].data.at = OneAfter(H)
                /\ agg.receiver.data.update_to = OneAfter(H)
                /\ agg.receiver.data.event_height = H
    /\ ChannelUpdateRequested =>
            LET H == lastMsg.receiver.data.event_height
                update == lastResult.msgs[1].queue[1]
            IN  /\ update.receiver.data.aggregate = "UpdateClient"
                /\ update.receiver.data.update_to = OneAfter(H)

(***************************************************************************)
(* The UpdateClient pipeline                                               *)
(***************************************************************************)
\* the message is the fetch of the trusted client state of client_id on
\* chain_id at Latest
FetchesTrustedAtLatest(m, chain_id, client_id) ==
    /\ m.tag = "Lc"
    /\ m.kind = "Fetch"
    /\ m.chain_id = chain_id
    /\ m.data = FetchTrustedClientState([at |-> "Latest"], client_id)

\* the handled message is the operator's Command::UpdateClient
CommandHandled ==
    /\ Handled
    /\ lastMsg.tag = "Lc"
    /\ lastMsg.kind = "Event"
    /\ lastMsg.data.type = "Command"

\* C31: the UpdateClient pipeline, entered by a handshake event or by the
\* operator's command, (1) fetches our trusted client state at Latest, (2) fetches
\* the counterparty's trusted client state of us at the counterparty's Latest
\* height, (3) emits Fetch(UpdateHeaders) with update_from = the trusted height
\* found in step 2 and the pipeline's update_to
C31_UpdatePipeline ==
    /\ CommandHandled =>
            /\ lastResult.msgs[1].receiver.data.aggregate = "UpdateClientFromClientId"
            /\ FetchesTrustedAtLatest(lastResult.msgs[1].queue[1],
                    lastMsg.chain_id, lastMsg.data.client_id)
    /\ (Handled /\ EventHandled("ConnectionOpenInit")) =>
            LET update == lastResult.msgs[1].seq[2].queue[1] IN
            /\ update.receiver.data.aggregate = "UpdateClient"
            /\ FetchesTrustedAtLatest(update.queue[1], lastMsg.chain_id,
                    lastMsg.data.event.client_id)
    /\ (Created("UpdateClient") \/ Created("UpdateClientFromClientId")) =>
            LET agg == Unwrapped(lastMsg).receiver IN
            /\ Successor.tag = "Aggregate"
            /\ Successor.receiver.data.aggregate =
                    "UpdateClientWithCounterpartyChainIdData"
            /\ Successor.receiver.data.update_to =
                    (IF agg.data.aggregate = "UpdateClient"
                     THEN agg.data.update_to
                     ELSE HandledTrustedClientState.fetched_at)
            /\ FetchesTrustedAtLatest(Successor.queue[1],
                    CounterpartyChain(agg.chain_id),
                    agg.data.counterparty_client_id)
    /\ Created("UpdateClientWithCounterpartyChainIdData") =>
            LET agg == Unwrapped(lastMsg).receiver
                found == Pluck(Unwrapped(lastMsg).data, Counterparty(agg.lc),
                               "TrustedClientState").data
            IN  /\ Successor.kind = "Fetch"
                /\ Successor.data.fetch = "UpdateHeaders"
                /\ Successor.chain_id = agg.chain_id
                /\ Successor.data.update_from = found.trusted_client_state.height
                /\ Successor.data.update_to = agg.data.update_to

(***************************************************************************)
(* Heights of different revisions                                          *)
(***************************************************************************)
\* the handled message is an Aggregate with an empty queue whose receiver
\* builds a handshake message; its data is the trusted client state
AfterUpdateChecked ==
    /\ lastMsg.tag = "Aggregate"
    /\ lastMsg.queue = <<>>
    /\ lastMsg.receiver.data.aggregate = "AggregateMsgAfterUpdate"
    /\ lastMsg.receiver.data.msg \in HandshakeMsgs
    /\ HasData(lastMsg.data, lastMsg.receiver.lc, "TrustedClientState")

\* C32: whenever the reducer compares two heights of different revision_number,
\* in WaitForBlock, in WaitForTrustedHeight and in the height checks of
\* AggregateMsgAfterUpdate, handling aborts: no decision is taken from
\* revision_height alone
C32_CrossRevision ==
    /\ (WaitHandled("Block")
            /\ lastMsg.data.height.revision_number
                    # RevisionOf(lastMsg.chain_id)) => lastResult.panic
    /\ (AfterUpdateChecked
            /\ lastMsg.receiver.data.event_height.revision_number
                    # HandledTrustedClientState.fetched_at.revision_number) =>
            lastResult.panic
    /\ (WaitHandled("TrustedHeight")
            /\ lastMsg.data.height.revision_number
                    # RevisionOf(CounterpartyChain(lastMsg.chain_id))) =>
            lastResult.panic

(***************************************************************************)
(* Submission to an EVM chain                                              *)
(***************************************************************************)
\* the handled message is a submission to an EVM chain
EvmMsgSubmitted ==
    /\ MsgSubmitted
    /\ lastMsg.chain_id \in evm_minimal \cup evm_mainnet

MaxBacklog == 2

\* a wait for a block that the chain never produces
TimedWait(chain_id) ==
    LcMsg(LcOf(chain_id), "Wait", chain_id,
        WaitForBlock(Height(RevisionOf(chain_id), MaxHeight + 1)))

\* messages whose handling re-emits a DeferUntil, a Sequence and an Aggregate,
\* and a wait under a timeout that ends with the first second
BacklogIngress ==
    {DeferUntil(MaxTimestamp)}
    \cup {Timeout(0, TimedWait(c)) : c \in Chains}
    \cup {Sequence(<<DeferUntil(1), DeferredWait(c)>>) : c \in Chains}
    \cup {Aggregate(<<FetchTrustedClientStateOn(c)>>, <<>>,
                    WaitForTrustedHeightReceiver(c)) : c \in Chains}

BacklogNext ==
    \/ \E msg \in BacklogIngress : RunEnqueueUpTo(msg, MaxBacklog)
    \/ RunTimeout
    \/ RunProcessEmpty
    \/ \E outcome \in Outcomes : RunProcess(outcome)
    \/ \E c \in Chains : NewBlock(c)
    \/ \E c \in Chains : ClientAdvance(c)

SpecBacklog == Init /\ [][BacklogNext]_vars

\* C34: the handler of the run loop answers Success for every message: a process
\* step on a non-empty queue that returns removes exactly the head, which is the
\* message handled, and appends its successors, a re-emitted DeferUntil, Sequence
\* or Aggregate included, behind all the messages already queued; the head is
\* never put back and the step never fails on the handler's answer
C34_AlwaysSuccess ==
    [][(pc = "process" /\ pc' = "select" /\ queue # <<>> /\ ~panicked') =>
            /\ lastMsg' = Head(queue)
            /\ ~lastResult'.panic
            /\ queue' = Tail(queue) \o lastResult'.msgs
            /\ ~poisoned']_vars

\* a DeferUntil that is not yet due was handled while another message was
\* queued behind it: it was re-emitted and now stands last, behind that message
C34_Witness ==
    /\ pc = "select"
    /\ lastMsg.tag = "DeferUntil"
    /\ ~lastResult.panic
    /\ lastResult.msgs = <<lastMsg>>
    /\ Len(queue) = 2
    /\ queue[2] = lastMsg
    /\ queue[1] # lastMsg

\* the message is the wait, or the Sequence of a deferral and the wait
Carries(m, wait) ==
    \/ m = wait
    \/ /\ m.tag = "Sequence"
       /\ Len(m.seq) = 2
       /\ m.seq[1].tag = "DeferUntil"
       /\ m.seq[2] = wait

\* the handler returned one message, and it carries the wait
CarriedOn(wait) ==
    /\ ~lastResult.panic
    /\ Len(lastResult.msgs) = 1
    /\ Carries(lastResult.msgs[1], wait)

\* C36: a Timeout handled at a clock up to its deadline returns what its inner
\* message returns, and none of it is under a Timeout; what the inner wait
\* re-emits is handled like the bare wait at every later clock, after the
\* deadline too: it is re-emitted again and never dropped as expired
C36_TimeoutFirstStepOnly ==
    /\ (/\ lastMsg.tag = "Timeout"
        /\ lastNow <= lastMsg.timeout_timestamp) =>
            /\ \A i \in DOMAIN lastResult.msgs :
                    lastResult.msgs[i].tag # "Timeout"
            /\ CarriedOn(lastMsg.msg)
    /\ \A c \in Chains :
            (lastMsg.tag # "None" /\ Carries(lastMsg, TimedWait(c))) =>
                CarriedOn(TimedWait(c))

\* the wait that came out of a Timeout was handled after the deadline of that
\* Timeout, it was re-emitted and is in the queue
C36_Witness ==
    \E c \in Chains :
        /\ lastMsg = TimedWait(c)
        /\ lastNow > 0
        /\ CarriedOn(lastMsg)
        /\ queue # <<>>
        /\ Carries(queue[Len(queue)], lastMsg)

(***************************************************************************)
(* The in-memory queue: the empty queue and the failing handler            *)
(***************************************************************************)
\* C35: process on an empty in-memory queue returns ok without invoking the
\* handler and leaves the queue empty: nothing is delivered, nobody is handling,
\* the lock is free and not poisoned, and the caller runs on
C35_ProcessEmpty ==
    [][lastFlow' = "Empty" =>
            /\ queue = <<>>
            /\ queue' = <<>>
            /\ handling' = handling
            /\ handling'[lastCaller'] = NoMsg
            /\ delivered' = delivered
            /\ appended' = appended
            /\ lock' = NoWorker
            /\ ~poisoned'
            /\ halted' = halted
            /\ ~halted'[lastCaller']]_vars

\* process found the queue empty after messages had been appended and delivered
C35_Witness ==
    /\ lastFlow = "Empty"
    /\ queue = <<>>
    /\ delivered # <<>>
    /\ ~halted[lastCaller]

\* C37: a Fail answer (or a panic in the handler) comes after the head was
\* popped and while the caller holds the lock: the failed message is not in the
\* queue any more, nothing is added, and the lock is poisoned; from then on every
\* enqueue or process, by any caller, panics at the lock and changes nothing
C37_FailPoisons ==
    [][ /\ lastFlow' = "Fail" =>
            /\ lock = lastCaller'
            /\ handling[lastCaller'] = Head(queueBefore)
            /\ queue = Tail(queueBefore)
            /\ queue' = queue
            /\ appended' = appended
            /\ delivered' = delivered
            /\ poisoned'
        /\ poisoned =>
            /\ poisoned'
            /\ lastFlow' = "Poisoned"
            /\ halted'[lastCaller']
            /\ queue' = queue
            /\ appended' = appended
            /\ delivered' = delivered
            /\ handling' = handling
      ]_vars

\* after one caller failed, another caller came to the queue, which still held
\* messages, and panicked at the poisoned lock
C37_Witness ==
    /\ lastFlow = "Poisoned"
    /\ poisoned
    /\ halted[lastCaller]
    /\ \E w \in Workers : w # lastCaller /\ halted[w]
    /\ queue # <<>>

(***************************************************************************)
(* Data inside a Sequence                                                  *)
(***************************************************************************)
\* what is left of the handled Sequence: the successors of its head, then the
\* elements behind the head, with the Sequences among them opened
Remainder == flatten(Sequence(HeadResult.msgs \o Tail(lastMsg.seq)))

\* what handling the Sequence at the head of the handled Aggregate's queue returns
QueuedStep == handle_msg(Head(lastMsg.queue), lastFlow)

\* C38: handling a non-empty Sequence returns exactly one successor, the
\* flattened remainder, bare when one element remains; Data that the head
\* produces while other elements remain stands at the front of the returned
\* Sequence and is gone when that Sequence is handled; an Aggregate collects
\* from a Sequence in its queue exactly when what the Sequence returns is a bare
\* Data, and otherwise puts the returned message back in its queue
C38_SequenceData ==
    /\ (lastMsg.tag = "Sequence" /\ lastMsg.seq # <<>> /\ ~lastResult.panic) =>
        /\ Len(lastResult.msgs) = 1
        /\ Len(Remainder) = 1 => lastResult.msgs[1] = Remainder[1]
        /\ Len(Remainder) # 1 => lastResult.msgs[1] = Sequence(Remainder)
        /\ (Len(Remainder) > 1 /\ IsData(Remainder[1])) =>
            LET next == handle_msg(lastResult.msgs[1], lastFlow) IN
                /\ ~next.panic
                /\ Len(next.msgs) = 1
                /\ LeavesOf(next.msgs[1]) = Tail(Remainder)
    /\ (/\ lastMsg.tag = "Aggregate"
        /\ lastMsg.queue # <<>>
        /\ Head(lastMsg.queue).tag = "Sequence"
        /\ Head(lastMsg.queue).seq # <<>>
        /\ ~lastResult.panic) =>
            /\ Len(lastResult.msgs) = 1
            /\ lastResult.msgs[1].tag = "Aggregate"
            /\ IsData(QueuedStep.msgs[1]) =>
                /\ lastResult.msgs[1].data = lastMsg.data \o QueuedStep.msgs
                /\ lastResult.msgs[1].queue = Tail(lastMsg.queue)
            /\ ~IsData(QueuedStep.msgs[1]) =>
                /\ lastResult.msgs[1].data = lastMsg.data
                /\ lastResult.msgs[1].queue = Tail(lastMsg.queue) \o QueuedStep.msgs

\* an Aggregate handled the Sequence of a Data and a deferral in its queue: the
\* deferral is back in the queue, the Data is in neither the queue nor the data
C38_Witness ==
    /\ lastMsg.tag = "Aggregate"
    /\ lastMsg.data = <<>>
    /\ Len(lastMsg.queue) = 1
    /\ lastMsg.queue[1].tag = "Sequence"
    /\ Len(lastMsg.queue[1].seq) = 2
    /\ IsData(lastMsg.queue[1].seq[1])
    /\ ~lastResult.panic
    /\ lastResult.msgs[1].data = <<>>
    /\ lastResult.msgs[1].queue = <<lastMsg.queue[1].seq[2]>>

(***************************************************************************)
(* The workflow of a SendPacket event in the run loop                      *)
(***************************************************************************)
\* the SendPacket events of the chains, at their latest height
PacketIngress == {IbcEvent(c, PacketEvent("SendPacket", c)) : c \in Chains}

PacketNext ==
    \/ \E msg \in PacketIngress : RunEnqueue(msg)
    \/ RunTimeout
    \/ RunProcessEmpty
    \/ \E outcome \in Outcomes : RunProcess(outcome)
    \/ \E c \in Chains : NewBlock(c)
    \/ \E c \in Chains : ClientAdvance(c)

SpecPacket == Init /\ [][PacketNext]_vars

RECURSIVE PartsOf(_)
RECURSIVE PartsOfAll(_)

\* the message and every message inside it
PartsOf(m) ==
    {m} \cup CASE m.tag = "Sequence" -> PartsOfAll(m.seq)
               [] m.tag = "Aggregate" -> PartsOfAll(m.queue)
               [] m.tag = "Timeout" -> PartsOf(m.msg)
               [] OTHER -> {}

PartsOfAll(msgs) ==
    IF msgs = <<>> THEN {}
    ELSE PartsOf(Head(msgs)) \cup PartsOfAll(Tail(msgs))

\* a fetch of update headers, an aggregate of the update pipeline, or a
\* MsgUpdateClient
IsClientUpdate(m) ==
    \/ /\ m.tag = "Lc"
       /\ \/ m.kind = "Fetch" /\ m.data.fetch \in {"UpdateHeaders", "LightClientSpecific"}
          \/ m.kind = "Msg" /\ m.data.msg = "UpdateClient"
    \/ /\ m.tag = "Aggregate"
       /\ m.receiver.data.aggregate \in
            {"UpdateClient", "UpdateClientFromClientId",
             "UpdateClientWithCounterpartyChainIdData", "LightClientSpecific"}

\* the heights that the workflow inside the message waits for the client on the
\* chain to trust: as the aggregate that builds the wait, made on the
\* counterparty, and as the wait itself
AwaitedBy(m, chain_id) ==
    {p.receiver.data.wait_for.revision_height :
        p \in {q \in PartsOf(m) :
                /\ q.tag = "Aggregate"
                /\ q.receiver.data.aggregate = "WaitForTrustedHeight"
                /\ q.receiver.chain_id = CounterpartyChain(chain_id)}}
    \cup {p.data.height.revision_height :
        p \in {q \in PartsOf(m) :
                /\ q.tag = "Lc"
                /\ q.kind = "Wait"
                /\ q.data.wait = "TrustedHeight"
                /\ q.chain_id = chain_id}}

\* the heights the queue waits for the client on the chain to trust
Awaited(q, chain_id) == UNION {AwaitedBy(q[i], chain_id) : i \in DOMAIN q}

\* a MsgRecvPacket for the chain is queued or was submitted
RecvPacketMade(chain_id) ==
    \/ \E i \in DOMAIN queue : \E p \in PartsOf(queue[i]) :
            /\ p.tag = "Lc"
            /\ p.kind = "Msg"
            /\ p.chain_id = chain_id
            /\ p.data.msg = "RecvPacket"
    \/ \E i \in DOMAIN submitted :
            /\ submitted[i].chain_id = chain_id
            /\ submitted[i].msg.msg = "RecvPacket"

\* C39: the workflow of a SendPacket event holds no fetch of update headers, no
\* aggregate of the update pipeline and no MsgUpdateClient, and submits none; a
\* wait for the counterparty's client to trust a height, which is the height
\* after the event's, stays in the queue
\* through every step taken while that client is below the height, so that a
\* MsgRecvPacket exists only once the client, advanced by another party, has
\* passed the height of the event
C39_SendPacketWaits ==
    /\ [](\A i \in DOMAIN queue : \A p \in PartsOf(queue[i]) : ~IsClientUpdate(p))
    /\ [](\A i \in DOMAIN submitted : submitted[i].msg.msg # "UpdateClient")
    /\ [][\A c \in Chains : \A h \in Awaited(queue, c) :
            (client_height[c] < h /\ ~panicked') => h \in Awaited(queue', c)]_vars
    /\ [](\A i \in DOMAIN queue :
            (/\ queue[i].tag = "Aggregate"
             /\ queue[i].receiver.data.aggregate = "AggregateMsgAfterUpdate") =>
                AwaitedBy(queue[i], CounterpartyChain(queue[i].receiver.chain_id))
                    \subseteq
                    {queue[i].receiver.data.event_height.revision_height + 1})
    /\ [](\A c \in Chains :
            RecvPacketMade(c) => client_height[c] > 1)

\* the workflow was handled at the last second of the clock with the wait at the
\* head of its queue and the client still below the height: the wait is deferred
\* once more and the workflow is back in the queue
C39_Witness ==
    \E c \in Chains :
        /\ lastMsg.tag = "Aggregate"
        /\ lastMsg.queue # <<>>
        /\ Head(lastMsg.queue).tag = "Lc"
        /\ Head(lastMsg.queue).kind = "Wait"
        /\ Head(lastMsg.queue).data.wait = "TrustedHeight"
        /\ Head(lastMsg.queue).chain_id = c
        /\ lastNow = MaxNow
        /\ client_height[c] < Head(lastMsg.queue).data.height.revision_height
        /\ Head(lastMsg.queue).data.height.revision_height \in Awaited(queue, c)

(***************************************************************************)
(* The EVM header builder: the chain of trusted slots                      *)
(***************************************************************************)
\* MakeCreateUpdatesFromLightClientUpdatesData was handled with all its data
BuilderHandled ==
    /\ lastMsg.tag = "Aggregate"
    /\ lastMsg.queue = <<>>
    /\ lastMsg.receiver.data.aggregate = "LightClientSpecific"
    /\ lastMsg.receiver.data.evm = "MakeCreateUpdatesFromLightClientUpdates"
    /\ ~lastResult.panic
    /\ Len(lastResult.msgs) = 1
    /\ lastResult.msgs[1].tag = "Sequence"

\* the updates the builder emitted, as the CreateUpdate each is to become
EmittedUpdates ==
    [i \in DOMAIN lastResult.msgs[1].seq |->
        lastResult.msgs[1].seq[i].receiver.data]

\* the sync-committee updates among the emitted
EmittedSync == SelectSeq(EmittedUpdates, LAMBDA u : u.is_next)

\* the attested slot of the last sync-committee update emitted, or update_from
LastEmittedSlot ==
    IF EmittedSync = <<>>
    THEN lastMsg.receiver.data.req.update_from.revision_height
    ELSE EmittedSync[Len(EmittedSync)].light_client_update.attested_slot

\* C40: the updates the EVM header builder emits form a chain of trusted slots:
\* the first starts from the request's update_from, each next one from the
\* attested slot of the one emitted before it; the sync-committee updates come
\* first, at most one finality update comes last, is made of the finality update
\* fetched, and is emitted exactly when the slot reached by the sync-committee
\* updates is below update_to
C40_TrustedSlotChain ==
    BuilderHandled =>
        /\ \A i \in DOMAIN EmittedUpdates :
            /\ i = 1 =>
                EmittedUpdates[i].currently_trusted_slot =
                    lastMsg.receiver.data.req.update_from.revision_height
            /\ i > 1 =>
                /\ EmittedUpdates[i].currently_trusted_slot =
                        EmittedUpdates[i - 1].light_client_update.attested_slot
                /\ EmittedUpdates[i - 1].is_next
            /\ ~EmittedUpdates[i].is_next =>
                /\ EmittedUpdates[i].light_client_update.attested_slot =
                        lastMsg.receiver.data.finality_update.attested_slot
                /\ EmittedUpdates[i].currently_trusted_slot = LastEmittedSlot
        /\ (\E i \in DOMAIN EmittedUpdates : ~EmittedUpdates[i].is_next)
                <=> LastEmittedSlot <
                        lastMsg.receiver.data.req.update_to.revision_height

\* two sync-committee updates and the finality update were emitted, the three
\* at different trusted slots
C40_Witness ==
    /\ BuilderHandled
    /\ Len(EmittedUpdates) = 3
    /\ Len(EmittedSync) = 2
    /\ ~EmittedUpdates[3].is_next
    /\ EmittedUpdates[1].currently_trusted_slot < EmittedUpdates[2].currently_trusted_slot
    /\ EmittedUpdates[2].currently_trusted_slot < EmittedUpdates[3].currently_trusted_slot

====
